---------------------------- MODULE Spec2Model ----------------------------
(***************************************************************************)
(* Keyword extraction and co-occurrence network pipeline of                *)
(* org_keyword_analysis5 (Streamlit dashboard for municipal documents).    *)
(*                                                                         *)
(* Strings are sequences of Unicode code points, so that len(), the        *)
(* character-class tests, the regular expression of the fallback tokenizer *)
(* and Python's string ordering are computed as the code computes them.    *)
(* A dict is an association list (a sequence of <<key, value>> pairs in    *)
(* insertion order), because the code iterates dicts in insertion order.   *)
(***************************************************************************)
EXTENDS Integers, Sequences, FiniteSets, TLC

(***************************************************************************)
(* Bounds of the model.                                                    *)
(***************************************************************************)
MaxDocs == 3          \* rows of the uploaded data frame
MaxMinCount == 2      \* min_count is drawn from 1..MaxMinCount
MaxTopN == 2          \* top_n_words is drawn from 1..MaxTopN
MaxRuns == 2          \* calls of calculate_cooccurrence in a session
MaxSessionDocs == 1   \* rows of the frame in such a session

(***************************************************************************)
(* Characters and strings.                                                 *)
(***************************************************************************)
NaN == <<-1>>          \* pandas' missing value of content_text (no string equals it)

W_shokuiku == <<39135, 32946>>                   \* "食育"
W_bousai   == <<38450, 28797>>                   \* "防災"
W_digital  == <<12487, 12472, 12479, 12523>>     \* "デジタル"
W_suishin  == <<25512, 36914>>                   \* "推進" (stop-listed)
W_torikumi == <<21462, 12426, 32068, 12415>>     \* "取り組み" (stop-listed)
W_okonau   == <<34892, 12358>>                   \* "行う" (stop-listed)
W_kyouka   == <<24375, 21270>>                   \* "強化" (stop-listed)
W_keikaku  == <<35336, 30011>>                   \* "計画" (stop-listed)
W_koujou   == <<21521, 19978>>                   \* "向上" (stop-listed)
W_niokeru  == <<12395, 12362, 12369, 12427>>     \* "における" (stop-listed)
C_no       == <<12398>>                          \* "の"
C_maru     == <<12290>>                          \* "。"

\* The entries of the stop-list that the modelled texts can produce.
EXCLUDE_WORDS == { W_suishin, W_torikumi, W_okonau, W_kyouka, W_keikaku, W_koujou, W_niokeru }

\* Python compares strings code point by code point (sorted(), line 483/516).
RECURSIVE StrLess(_, _)
StrLess(s, t) ==
    IF t = <<>> THEN FALSE
    ELSE IF s = <<>> THEN TRUE
    ELSE IF s[1] # t[1] THEN s[1] < t[1]
    ELSE StrLess(Tail(s), Tail(t))

\* Insert x into the ascending sequence q.
RECURSIVE InsertSorted(_, _)
InsertSorted(x, q) ==
    IF q = <<>> THEN <<x>>
    ELSE IF StrLess(x, q[1]) THEN <<x>> \o q
    ELSE <<q[1]>> \o InsertSorted(x, Tail(q))

\* Variant: the list is left in the order it came in.
SortedUnsorted(q) == q

\* sorted(unique_words): ascending in Python's string order.
RECURSIVE Sorted(_)
Sorted(q) == IF q = <<>> THEN <<>> ELSE InsertSorted(q[1], Sorted(Tail(q)))

Range(q) == { q[i] : i \in 1..Len(q) }

\* The elements of q, each kept at its first occurrence.
RECURSIVE Dedup(_)
Dedup(q) ==
    IF q = <<>> THEN <<>>
    ELSE LET r == Dedup(SubSeq(q, 1, Len(q) - 1))
         IN  IF q[Len(q)] \in Range(r) THEN r ELSE Append(r, q[Len(q)])

(***************************************************************************)
(* set(words): CPython iterates a set in the order of its hash-table       *)
(* slots, and the hash of a string depends on the seed the process drew at *)
(* start-up (hash randomisation).  StrHash is a small seeded string hash;  *)
(* equal slots keep their insertion order, as probing does.                *)
(***************************************************************************)
HashSeeds == {1, 6}
SetTableSize == 8

RECURSIVE StrHash(_, _)
StrHash(s, seed) ==
    IF s = <<>> THEN seed
    ELSE (StrHash(SubSeq(s, 1, Len(s) - 1), seed) * 31 + s[Len(s)] * seed) % 1009

SlotOf(w, seed) == StrHash(w, seed) % SetTableSize

RECURSIVE InsertBySlot(_, _, _)
InsertBySlot(x, q, seed) ==
    IF q = <<>> THEN <<x>>
    ELSE IF SlotOf(x, seed) < SlotOf(q[1], seed) THEN <<x>> \o q
    ELSE <<q[1]>> \o InsertBySlot(x, Tail(q), seed)

RECURSIVE OrderBySlot(_, _)
OrderBySlot(q, seed) ==
    IF q = <<>> THEN <<>>
    ELSE InsertBySlot(q[Len(q)], OrderBySlot(SubSeq(q, 1, Len(q) - 1), seed), seed)

\* Variant: the words are not de-duplicated.
ListOfSetNoDedup(words, seed) == OrderBySlot(words, seed)

\* list(set(words)) of lines 479 and 508.
ListOfSet(words, seed) == OrderBySlot(Dedup(words), seed)

(***************************************************************************)
(* Fallback tokenizer (regular expression), lines 416-427.                 *)
(***************************************************************************)
\* The alternative of the pattern [ァ-ヴー]+|[ぁ-ん]+|[一-龥]+|[a-zA-Z]+ that
\* can start at character c; 0 when none can.
CharClass(c) ==
    IF (12449 <= c /\ c <= 12532) \/ c = 12540 THEN 1
    ELSE IF 12353 <= c /\ c <= 12435 THEN 2
    ELSE IF 19968 <= c /\ c <= 40869 THEN 3
    ELSE IF (97 <= c /\ c <= 122) \/ (65 <= c /\ c <= 90) THEN 4
    ELSE 0

\* Length of the longest prefix of s whose characters are all of class k.
RECURSIVE RunLength(_, _)
RunLength(s, k) ==
    IF s = <<>> \/ CharClass(s[1]) # k THEN 0 ELSE 1 + RunLength(Tail(s), k)

\* re.findall(pattern, text): the maximal runs, scanning left to right.
RECURSIVE FindAll(_)
FindAll(s) ==
    IF s = <<>> THEN <<>>
    ELSE IF CharClass(s[1]) = 0 THEN FindAll(Tail(s))
    ELSE LET n == RunLength(s, CharClass(s[1]))
         IN  <<SubSeq(s, 1, n)>> \o FindAll(SubSeq(s, n + 1, Len(s)))

\* Variant: the stop-list is not consulted.
KeepWordNoStopList(w) == Len(w) > 1

\* Lines 362/426: the filter of the regex strategy.
KeepWord(w) == w \notin EXCLUDE_WORDS /\ Len(w) > 1

\* One text of tokenize_text_batch under the regex strategy (lines 418-427).
TokenizeFallback(text) ==
    IF text = NaN \/ text = <<>> THEN <<>>
    ELSE SelectSeq(FindAll(text), KeepWord)

\* tokenize_text_batch(texts, use_mecab=False): one list per text, in order.
tokenize_text_batch(texts) == [i \in 1..Len(texts) |-> TokenizeFallback(texts[i])]

(***************************************************************************)
(* calculate_word_importance_score, lines 182-225.  The score is kept as   *)
(* an integer: ScoreScale times the real score, with ln() taken from a     *)
(* table of 10^6 * ln(n) (ln 4, ln 6, ln 8, ln 9 as the sums of ln 2 and   *)
(* ln 3, so that equal real scores are equal integers).                    *)
(***************************************************************************)
LnMicro(n) ==
    <<0, 693147, 1098612, 1386294, 1609438, 1791759, 1945910, 2079441, 2197224>>[n]

has_katakana(word) == \E i \in 1..Len(word) : 12449 <= word[i] /\ word[i] <= 12534
has_kanji(word)    == \E i \in 1..Len(word) : 19968 <= word[i] /\ word[i] <= 40959
has_alpha(word)    == \E i \in 1..Len(word) :
                          (97 <= word[i] /\ word[i] <= 122) \/ (65 <= word[i] /\ word[i] <= 90)

\* length_bonus * 2
LengthBonus2(word) ==
    IF Len(word) >= 8 THEN 6 ELSE IF Len(word) >= 6 THEN 4
    ELSE IF Len(word) >= 4 THEN 3 ELSE 2

\* complexity_bonus * 2
ComplexityBonus2(word) ==
    LET char_types == (IF has_katakana(word) THEN 1 ELSE 0)
                    + (IF has_kanji(word) THEN 1 ELSE 0)
                    + (IF has_alpha(word) THEN 1 ELSE 0)
    IN  IF char_types >= 2 THEN 3 ELSE 2

\* short_penalty * 10
ShortPenalty10(word) ==
    IF Len(word) <= 2 THEN 2 ELSE IF Len(word) = 3 THEN 5 ELSE 10

\* Variant: the score is weighted by the size of the document set.
ScoreWeightedByDocs(word, freq, total_docs) ==
    LnMicro(freq + 1) * LengthBonus2(word) * ComplexityBonus2(word) * ShortPenalty10(word)
        * total_docs

\* Lines 189-225: the score times 40 * 10^6.
calculate_word_importance_score(word, freq, total_docs) ==
    LnMicro(freq + 1) * LengthBonus2(word) * ComplexityBonus2(word) * ShortPenalty10(word)

(***************************************************************************)
(* Counter / dict operations on association lists.                         *)
(***************************************************************************)
Keys(d) == { d[i][1] : i \in 1..Len(d) }

\* d[k] of a Counter: 0 for a missing key.
Get(d, k) == IF k \in Keys(d) THEN d[CHOOSE i \in 1..Len(d) : d[i][1] = k][2] ELSE 0

\* d[k] += 1: a new key goes to the end of the insertion order.
Inc(d, k) ==
    IF k \in Keys(d)
    THEN [i \in 1..Len(d) |-> IF d[i][1] = k THEN <<k, d[i][2] + 1>> ELSE d[i]]
    ELSE Append(d, <<k, 1>>)

\* for k in ks: d[k] += 1
RECURSIVE IncAll(_, _)
IncAll(d, ks) == IF ks = <<>> THEN d ELSE IncAll(Inc(d, ks[1]), Tail(ks))

(***************************************************************************)
(* The MeCab strategy of tokenize_text (lines 317-353) and of              *)
(* tokenize_text_batch (lines 369-411).  The analyzer is a library: what   *)
(* it returns for a text is an input, a list of nodes with the part of     *)
(* speech features[0], the base form features[6] and the surface.  The     *)
(* BOS/EOS nodes are left out: they are no content words and no nouns.     *)
(***************************************************************************)
Star == <<42>>                     \* "*": the analyzer gives no base form
W_tori   == <<21462, 12426>>       \* "取り"
W_kumi   == <<32068, 12415>>       \* "組み"
W_okonai == <<34892, 12356>>       \* "行い"
W_nendo  == <<24180, 24230>>       \* "年度"
W_2024   == <<50, 48, 50, 52>>     \* "2024"

ContentPos == {"noun", "verb", "adjective"}     \* ['名詞', '動詞', '形容詞']
MaxCompoundLen == 10                            \* line 344 / 402

Node(pos, base, surface) == [pos |-> pos, base |-> base, surface |-> surface]
NoNode == Node("none", Star, <<>>)              \* prev_node = None

\* Lines 333/391 and 341/399: the base form when there is one, else the surface.
NodeWord(node) == IF node.base # Star THEN node.base ELSE node.surface

\* str.isdigit() on the characters the modelled texts hold.
IsDigit(w) == Len(w) > 0 /\ \A i \in 1..Len(w) : 48 <= w[i] /\ w[i] <= 57

\* Lines 386-406: the loop over the nodes, with prev_node, words and
\* compounds as the loop carries them; returns << words, compounds >>.
RECURSIVE ParseNodes(_, _, _, _, _)
ParseNodes(nodes, prev_node, words, compounds, use_compound) ==
    IF nodes = <<>> THEN << words, compounds >>
    ELSE LET node == nodes[1]
             pos  == node.pos
             word == NodeWord(node)
             keep == /\ pos \in ContentPos
                     /\ word # <<>>
                     /\ word \notin EXCLUDE_WORDS
                     /\ Len(word) > 1
                     /\ ~IsDigit(word)
             prev_word == NodeWord(prev_node)
             comp == /\ keep
                     /\ use_compound
                     /\ pos = "noun"
                     /\ prev_node # NoNode
                     /\ prev_node.pos = "noun"
                     /\ prev_word # <<>>
                     /\ prev_word \notin EXCLUDE_WORDS
                     /\ Len(prev_word) > 1
                     /\ Len(prev_word \o word) <= MaxCompoundLen
         IN  ParseNodes(Tail(nodes),
                        IF pos = "noun" THEN node ELSE NoNode,
                        IF keep THEN Append(words, word) ELSE words,
                        IF comp THEN Append(compounds, prev_word \o word) ELSE compounds,
                        use_compound)

\* Lines 383-411: the terms of one analysed text (compounds appended in the
\* iteration order of set(compounds)).
MecabWords(nodes, use_compound, seed) ==
    LET r == ParseNodes(nodes, NoNode, <<>>, <<>>, use_compound)
    IN  IF use_compound THEN r[1] \o ListOfSet(r[2], seed) ELSE r[1]

(***************************************************************************)
(* The uploaded documents: the content_text column takes its values from a *)
(* pool of short texts (and NaN).                                          *)
(***************************************************************************)
T_empty == <<>>                                                        \* ""
T_ab    == W_shokuiku \o C_maru \o W_bousai                            \* "食育。防災"
T_bab   == W_bousai \o C_maru \o W_shokuiku \o C_maru \o W_bousai      \* "防災。食育。防災"
T_ca    == W_digital \o C_maru \o W_shokuiku                           \* "デジタル。食育"
T_cb    == W_digital \o C_maru \o W_bousai                             \* "デジタル。防災"
T_a     == W_shokuiku \o C_no \o W_suishin                             \* "食育の推進"
T_cab   == W_digital \o C_maru \o W_shokuiku \o C_maru \o W_bousai     \* "デジタル。食育。防災"

TextPool == { NaN, T_empty, T_bab, T_ca, T_cb, T_a, T_cab }

\* The AI branch reads a text only to test it for NaN, to hash its prefix and
\* to send it away, so fewer texts cover it.
AITextPool == { NaN, T_empty, T_ab }

\* Keyword lists that lines 290-304 can make of an answer of the service.
ExtractOutcomes ==
    { <<W_shokuiku, W_bousai>>, <<W_bousai, W_digital, W_bousai>> }

\* What the request of lines 241-288 can do: raise, or bring an answer.
ServiceOutcomes ==
    { [kind |-> "raise", keywords |-> <<>>] }
    \cup { [kind |-> "answer", keywords |-> k] : k \in ExtractOutcomes }

\* Variant: after an exception the error text is handed back as a keyword.
ExtractErrorText(available, key, outcome) ==
    IF ~available \/ ~key THEN <<>>
    ELSE IF outcome.kind = "raise" THEN << <<69, 114, 114, 111, 114>> >>
    ELSE outcome.keywords

\* Lines 237-308: [] without the library or a key (line 238) and after any
\* exception (line 308), else the keywords of the answer.
extract_keywords_with_ai(available, key, outcome) ==
    IF ~available \/ ~key THEN <<>>
    ELSE IF outcome.kind = "raise" THEN <<>>
    ELSE outcome.keywords

SampleSizes == {0, 1}              \* sample_size: 0 (no sampling) or a cap
BatchSize == 100                   \* batch_size, line 487
ProgressEvery == 10                \* line 464

\* df.sample(n, random_state=42) takes the first n entries of the permutation
\* numpy's RandomState(42) draws for the frame's length (1-based row numbers).
Perm42(len) == IF len = 2 THEN <<2, 1>> ELSE [i \in 1..len |-> i]
Sample(frame, n) == [i \in 1..n |-> frame[Perm42(Len(frame))[i]]]

\* hash(str(text)[:100]) of line 471: the key is the text's first 100
\* characters (the hash is taken to be collision-free on them).
PrefixLen == 100
TextHash(text) == SubSeq(text, 1, IF Len(text) < PrefixLen THEN Len(text) ELSE PrefixLen)

(***************************************************************************)
(* State.                                                                  *)
(***************************************************************************)
VARIABLES
    hash_seed,             \* string-hash seed of the running Python process
    df,                    \* content_text of the rows passed to calculate_cooccurrence
    min_count,             \* arguments of calculate_cooccurrence ...
    top_n_words,
    use_ai,
    api_key,               \* TRUE: a non-empty key
    sample_size,
    ai_keywords_cache,     \* st.session_state.ai_keywords_cache (line 49)
    pc,                    \* position inside calculate_cooccurrence
    rows,                  \* df after the sampling of lines 447-449
    idx,                   \* documents consumed by the running loop
    all_words_list,        \* line 488
    word_counts,           \* Counter, line 452
    cooccurrence_counts,   \* defaultdict(int), line 454
    results,               \* what each finished call returned, oldest first
    doc_terms,             \* history: the term list obtained for each document
                           \* the running (or last) call has counted, in order
    OPENAI_AVAILABLE,      \* lines 20-26: the openai library could be imported
    enable_cache,          \* the sidebar checkbox of line 868
    ai_log,                \* history: how the running (or last) call obtained the
                           \* terms of each document of the AI loop, in order
    api_calls,             \* history: requests sent to the completion service in
    progress_bar,          \* what the progress bar of the running call was told, in order
                           \* this session, counted per text hash
    net_args,              \* arguments of a call of create_cooccurrence_network
    net_done,              \* TRUE once that call has returned
    net_out,               \* what it returned
    tk_args,               \* arguments of a call of tokenize_text(_batch)
    tk_pc,                 \* position inside that call
    tk_i,                  \* texts consumed by its running loop
    tk_results,            \* its results list (lines 367, 376, 411, 415, 427)
    qr_args,               \* arguments of a call of count_keyword_occurrences
    qr_pc,                 \* position inside that call
    qr_k,                  \* keywords consumed by its running loop
    search_type,           \* what parse_search_query returned to it (line 793)
    keywords,
    keyword_count,         \* column df['keyword_count'], one entry per row
    has_keyword,           \* column df['has_keyword'], one entry per row
    sc_word,               \* the term calculate_word_importance_score is called on
    sc_calls,              \* its calls so far: freq, total_docs and the score returned
    custom_keywords,       \* st.session_state.custom_keywords (lines 44-45)
    kw_click,              \* the last click on a keyword button and the list before it
    cooccurrence_data,     \* st.session_state.cooccurrence_data (lines 46-47)
    tab4                   \* the 'generate network' button of tab 4 and what it showed

vars == << hash_seed, df, min_count, top_n_words, use_ai, api_key, sample_size,
           ai_keywords_cache, pc, rows, idx, all_words_list, word_counts,
           cooccurrence_counts, results, doc_terms,
           OPENAI_AVAILABLE, enable_cache, ai_log, api_calls, progress_bar,
           net_args, net_done, net_out,
           tk_args, tk_pc, tk_i, tk_results,
           qr_args, qr_pc, qr_k, search_type, keywords, keyword_count, has_keyword,
           sc_word, sc_calls, custom_keywords, kw_click, cooccurrence_data, tab4 >>

netVars == << net_args, net_done, net_out >>
tokVars == << tk_args, tk_pc, tk_i, tk_results >>
qryVars == << qr_args, qr_pc, qr_k, search_type, keywords, keyword_count, has_keyword >>
scoreVars == << sc_word, sc_calls >>
keywordVars == << custom_keywords, kw_click >>
flowVars == << cooccurrence_data, tab4 >>
aggVars == << hash_seed, df, min_count, top_n_words, use_ai, api_key, sample_size,
              ai_keywords_cache, pc, rows, idx, all_words_list, word_counts,
              cooccurrence_counts, results, doc_terms,
              OPENAI_AVAILABLE, enable_cache, ai_log, api_calls, progress_bar >>
outsideCall == << netVars, tokVars, qryVars, scoreVars, keywordVars >>
outsideAgg == << outsideCall, flowVars >>
outsideTok == << aggVars, netVars, qryVars, scoreVars, keywordVars, flowVars >>
outsideQry == << aggVars, netVars, tokVars, scoreVars, keywordVars, flowVars >>
outsideScore == << aggVars, netVars, tokVars, qryVars, keywordVars, flowVars >>

args == << df, min_count, top_n_words, use_ai, api_key, sample_size >>
settings == << OPENAI_AVAILABLE, enable_cache >>

\* Sequences over S of length 0..n.
SeqUpTo(S, n) == UNION { [1..k -> S] : k \in 0..n }

EmptyDict == <<>>

\* Fractions as << numerator, denominator >>.
Zero == <<0, 1>>
Frac(n) == <<n, 1>>
FracLeq(a, b) == a[1] * b[2] <= b[1] * a[2]

\* What a progress bar is told: progress(value) or empty().
Progress(value) == [call |-> "progress", value |-> value]
Emptied == [call |-> "empty", value |-> Zero]
NoNetArgs == [word_counts |-> EmptyDict, cooccurrence_data |-> EmptyDict,
              top_words |-> <<>>, edge_threshold2 |-> 0]
NoNetOut == "none"
EmptyResult == [word_counts |-> EmptyDict, cooccurrence |-> EmptyDict, top_words |-> <<>>]
NoTokArgs == [fn |-> "none", texts |-> <<>>, use_mecab |-> FALSE,
              MECAB_AVAILABLE |-> FALSE, use_compound |-> FALSE]

\* The settings and histories of the AI branch where that branch is not run.
AIHistoryOff ==
    /\ OPENAI_AVAILABLE = TRUE
    /\ enable_cache = TRUE
    /\ ai_log = <<>>
    /\ api_calls = EmptyDict

\* No call of the tokenizer on its own is under way.
TokOff ==
    /\ tk_args = NoTokArgs
    /\ tk_pc = "off"
    /\ tk_i = 0
    /\ tk_results = <<>>

NoQueryArgs == [df |-> <<>>, keyword |-> <<>>]

\* No call of count_keyword_occurrences is under way.
QueryOff ==
    /\ qr_args = NoQueryArgs
    /\ qr_pc = "off"
    /\ qr_k = 0
    /\ search_type = "none"
    /\ keywords = <<>>
    /\ keyword_count = <<>>
    /\ has_keyword = <<>>

\* No keyword button has been clicked: the list of lines 44-45.
NoClick == [button |-> "none", input |-> <<>>, before |-> <<>>]

KeywordsOff ==
    /\ custom_keywords = <<>>
    /\ kw_click = NoClick

\* Nothing is stored in the session (lines 46-47) and the button of tab 4 has
\* not been clicked.
None == [value |-> "None"]
NoFlow == [pc |-> "idle", clicks |-> 0, changed |-> FALSE, messages |-> <<>>,
           calls |-> <<>>, before |-> None]

FlowOff ==
    /\ cooccurrence_data = None
    /\ tab4 = NoFlow

\* No call of calculate_word_importance_score on its own has been made.
ScoreOff ==
    /\ sc_word = <<>>
    /\ sc_calls = <<>>

Init ==
    /\ hash_seed \in HashSeeds
    /\ use_ai \in BOOLEAN
    \* the dashboard calls with AI extraction only when a key was entered
    \* (line 1517) and passes a sample size only then (line 1528)
    /\ api_key = use_ai
    /\ sample_size \in (IF use_ai THEN SampleSizes ELSE {0})
    /\ OPENAI_AVAILABLE \in (IF use_ai THEN BOOLEAN ELSE {TRUE})
    \* without the library the checkbox is not shown (line 875)
    /\ enable_cache \in (IF use_ai /\ OPENAI_AVAILABLE THEN BOOLEAN ELSE {TRUE})
    /\ ai_log = <<>>
    /\ api_calls = EmptyDict
    /\ progress_bar = <<>>
    /\ df \in SeqUpTo(IF use_ai THEN AITextPool ELSE TextPool, MaxDocs)
    /\ min_count \in 1..MaxMinCount
    /\ top_n_words \in 1..MaxTopN
    /\ ai_keywords_cache = EmptyDict
    /\ pc = "idle"
    /\ rows = <<>>
    /\ idx = 0
    /\ all_words_list = <<>>
    /\ word_counts = EmptyDict
    /\ cooccurrence_counts = EmptyDict
    /\ results = <<>>
    /\ doc_terms = <<>>
    /\ net_args = NoNetArgs
    /\ net_done = FALSE
    /\ net_out = NoNetOut
    /\ TokOff
    /\ QueryOff
    /\ ScoreOff
    /\ KeywordsOff
    /\ FlowOff

(***************************************************************************)
(* calculate_cooccurrence, lines 431-555.                                  *)
(***************************************************************************)
\* itertools.combinations(q, 2), in the order it yields the pairs (line 483).
RECURSIVE Combinations2(_)
Combinations2(q) ==
    IF Len(q) < 2 THEN <<>>
    ELSE [j \in 1..(Len(q) - 1) |-> <<q[1], q[j + 1]>>] \o Combinations2(Tail(q))

\* Variant: the inner loop stops after one step.
RECURSIVE IndexPairsAdjacent(_, _)
IndexPairsAdjacent(q, i) ==
    IF i >= Len(q) THEN <<>>
    ELSE << <<q[i], q[i + 1]>> >> \o IndexPairsAdjacent(q, i + 1)

\* The pairs of the nested index loops of lines 517-519, from row i on.
RECURSIVE IndexPairs(_, _)
IndexPairs(q, i) ==
    IF i > Len(q) THEN <<>>
    ELSE [k \in 1..(Len(q) - i) |-> <<q[i], q[i + k]>>] \o IndexPairs(q, i + 1)

\* Variant: the pairs are taken from the list as it came, duplicates included.
CountAIOfList(words, seed, wc, cc) ==
    LET unique_words == ListOfSet(words, seed)
    IN  << IncAll(wc, unique_words),
           IncAll(cc, Combinations2(Sorted(words))) >>

\* Lines 479-484: the counting of one document in the AI branch.
CountAI(words, seed, wc, cc) ==
    LET unique_words == ListOfSet(words, seed)
    IN  << IncAll(wc, unique_words),
           IncAll(cc, Combinations2(Sorted(unique_words))) >>

\* Lines 505-519: the counting of one document in the tokenizer branch.
CountTokenized(words, seed, wc, cc) ==
    IF words = <<>> THEN << wc, cc >>
    ELSE LET unique_words == ListOfSet(words, seed)
         IN  << IncAll(wc, unique_words),
                IF Len(unique_words) > 1
                THEN IncAll(cc, IndexPairs(Sorted(unique_words), 1))
                ELSE cc >>

\* Variant: the frequency threshold is not applied to the scored terms.
WordScoresNoThreshold(wc, minc, total_docs) ==
    [i \in 1..Len(wc) |->
        << wc[i][1], wc[i][2],
           calculate_word_importance_score(wc[i][1], wc[i][2], total_docs) >>]

\* Lines 533-537: the scored terms, in the Counter's insertion order.
WordScores(wc, minc, total_docs) ==
    LET Eligible(e) == e[2] >= minc
        kept == SelectSeq(wc, Eligible)
    IN  [i \in 1..Len(kept) |->
            << kept[i][1], kept[i][2],
               calculate_word_importance_score(kept[i][1], kept[i][2], total_docs) >>]

\* Variant: an unstable sort, which puts a later equal-score entry first.
RECURSIVE InsertByScoreUnstable(_, _)
InsertByScoreUnstable(x, q) ==
    IF q = <<>> THEN <<x>>
    ELSE IF q[1][3] <= x[3] THEN <<x>> \o q
    ELSE <<q[1]>> \o InsertByScoreUnstable(x, Tail(q))

\* list.sort(key=score, reverse=True), line 540: descending and stable.
RECURSIVE InsertByScore(_, _)
InsertByScore(x, q) ==
    IF q = <<>> THEN <<x>>
    ELSE IF q[1][3] < x[3] THEN <<x>> \o q
    ELSE <<q[1]>> \o InsertByScore(x, Tail(q))

RECURSIVE SortByScore(_)
SortByScore(q) ==
    IF q = <<>> THEN <<>>
    ELSE InsertByScore(q[Len(q)], SortByScore(SubSeq(q, 1, Len(q) - 1)))

\* Variant: the slice keeps one entry too many.
TopWordsOffByOne(word_scores, n) ==
    LET m == IF Len(word_scores) < n + 1 THEN Len(word_scores) ELSE n + 1
    IN  [i \in 1..m |-> word_scores[i][1]]

\* Line 543: word_scores[:top_n_words], the words only.
TopWords(word_scores, n) ==
    LET m == IF Len(word_scores) < n THEN Len(word_scores) ELSE n
    IN  [i \in 1..m |-> word_scores[i][1]]

\* Variant: the count threshold is not applied to the pairs.
FilterCooccurrenceNoThreshold(cc, top_words, minc) ==
    LET Keep(e) == /\ e[1][1] \in Range(top_words)
                   /\ e[1][2] \in Range(top_words)
    IN  SelectSeq(cc, Keep)

\* Lines 547-550.
FilterCooccurrence(cc, top_words, minc) ==
    LET Keep(e) == /\ e[1][1] \in Range(top_words)
                   /\ e[1][2] \in Range(top_words)
                   /\ e[2] >= minc
    IN  SelectSeq(cc, Keep)

\* Variant: every kept term is given the frequency of the first one.
FilterWordCountsFirst(wc, top_words) ==
    [i \in 1..Len(top_words) |-> << top_words[i], Get(wc, top_words[1]) >>]

\* Line 553.
FilterWordCounts(wc, top_words) ==
    [i \in 1..Len(top_words) |-> << top_words[i], Get(wc, top_words[i]) >>]

\* Lines 528-555: what the call returns once the counting loops are over.
SelectResult(wc, cc, minc, topn, total_docs) ==
    IF wc = EmptyDict THEN EmptyResult
    ELSE LET top_words == TopWords(SortByScore(WordScores(wc, minc, total_docs)), topn)
         IN  [ word_counts  |-> FilterWordCounts(wc, top_words),
               cooccurrence |-> FilterCooccurrence(cc, top_words, minc),
               top_words    |-> top_words ]

\* Variant: an empty keyword list is not worth an entry.
CacheStoreNonEmpty(cache, text_hash, words) ==
    IF words = <<>> THEN cache ELSE Append(cache, << text_hash, words >>)

\* Line 477: the result is stored under a hash the cache does not hold yet.
CacheStore(cache, text_hash, words) == Append(cache, << text_hash, words >>)

\* Lines 866-871: every run of the script, which a press of the button
\* starts, empties the cache unless the checkbox is ticked.
ScriptRun ==
    ai_keywords_cache' = IF enable_cache THEN ai_keywords_cache ELSE EmptyDict

\* Lines 437-459: entry, validation, sampling, fresh counters.
Call ==
    /\ pc = "idle"
    /\ IF Len(df) = 0
       THEN /\ results' = Append(results, EmptyResult)
            /\ UNCHANGED << pc, rows, idx, all_words_list, word_counts,
                            cooccurrence_counts, doc_terms, ai_log, progress_bar >>
       ELSE /\ rows' = IF sample_size # 0 /\ Len(df) > sample_size
                       THEN Sample(df, sample_size) ELSE df
            /\ word_counts' = EmptyDict
            /\ cooccurrence_counts' = EmptyDict
            /\ all_words_list' = <<>>
            /\ idx' = 0
            /\ doc_terms' = <<>>
            /\ ai_log' = <<>>
            /\ progress_bar' = << Progress(Zero) >>                    \* line 456
            /\ pc' = IF use_ai /\ api_key THEN "ai" ELSE "tokenize"
            /\ UNCHANGED results
    /\ UNCHANGED << hash_seed, args, settings, api_calls >>
    /\ UNCHANGED outsideCall

\* The first call of calculate_cooccurrence (the call of line 1522).
Generate ==
    /\ Len(results) = 0
    /\ ScriptRun
    /\ Call
    /\ UNCHANGED flowVars

\* Lines 463-465: every ProgressEvery-th document is reported.
Reported(bar, processed_count, total_docs) ==
    IF processed_count % ProgressEvery = 0
    THEN Append(bar, Progress(<< processed_count, total_docs >>))
    ELSE bar

\* Variant: the fraction is not capped.
BatchProgressUncapped(i, total_docs) == << i + BatchSize, total_docs >>

\* Lines 500-501: min((i + batch_size) / total_docs, 1.0).
BatchProgress(i, total_docs) ==
    IF i + BatchSize >= total_docs THEN Frac(1) ELSE << i + BatchSize, total_docs >>

\* Lines 462-484: one iteration of the AI loop.
AIDocument ==
    /\ pc = "ai"
    /\ idx < Len(rows)
    /\ idx' = idx + 1
    /\ progress_bar' = Reported(progress_bar, idx + 1, Len(rows))
    /\ LET text == rows[idx + 1]
       IN  IF text = NaN
           THEN /\ doc_terms' = Append(doc_terms, <<>>)
                /\ ai_log' = Append(ai_log, [kind |-> "nan", text_hash |-> <<>>])
                /\ UNCHANGED << ai_keywords_cache, api_calls, word_counts,
                                cooccurrence_counts >>
           ELSE \E outcome \in ServiceOutcomes :
                  LET text_hash == TextHash(text)
                      hit   == text_hash \in Keys(ai_keywords_cache)
                      asked == ~hit /\ OPENAI_AVAILABLE /\ api_key
                      words == IF hit THEN Get(ai_keywords_cache, text_hash)
                               ELSE extract_keywords_with_ai(OPENAI_AVAILABLE, api_key, outcome)
                      cnt   == CountAI(words, hash_seed, word_counts, cooccurrence_counts)
                      kind  == IF hit THEN "hit"
                               ELSE IF asked THEN outcome.kind ELSE "unavailable"
                  IN  /\ ai_keywords_cache' =
                            IF hit THEN ai_keywords_cache
                            ELSE CacheStore(ai_keywords_cache, text_hash, words)
                      /\ api_calls' = IF asked THEN Inc(api_calls, text_hash) ELSE api_calls
                      /\ ai_log' = Append(ai_log, [kind |-> kind, text_hash |-> text_hash])
                      /\ word_counts' = cnt[1]
                      /\ cooccurrence_counts' = cnt[2]
                      /\ doc_terms' = Append(doc_terms, words)
    /\ UNCHANGED << hash_seed, args, settings, pc, rows, all_words_list, results >>
    /\ UNCHANGED outsideAgg

AILoopEnd ==
    /\ pc = "ai"
    /\ idx = Len(rows)
    /\ pc' = "select"
    /\ progress_bar' = Append(progress_bar, Emptied)        \* line 521
    /\ UNCHANGED << hash_seed, args, settings, ai_log, api_calls, ai_keywords_cache, rows, idx, all_words_list,
                    word_counts, cooccurrence_counts, results, doc_terms >>
    /\ UNCHANGED outsideAgg

\* Lines 491-501: one batch of the tokenizing loop (idx is the loop's i).
TokenizeBatch ==
    /\ pc = "tokenize"
    /\ idx < Len(rows)
    /\ LET last  == IF idx + BatchSize < Len(rows) THEN idx + BatchSize ELSE Len(rows)
           texts == SubSeq(rows, idx + 1, last)
       IN  all_words_list' = all_words_list \o tokenize_text_batch(texts)
    /\ progress_bar' = Append(progress_bar, Progress(BatchProgress(idx, Len(rows))))
    /\ IF idx + BatchSize < Len(rows)
       THEN idx' = idx + BatchSize /\ pc' = pc
       ELSE idx' = 0 /\ pc' = "count"
    /\ UNCHANGED << hash_seed, args, settings, ai_log, api_calls, ai_keywords_cache, rows, word_counts,
                    cooccurrence_counts, results, doc_terms >>
    /\ UNCHANGED outsideAgg

\* Lines 504-519: one iteration of the counting loop, or its end.
CountDocument ==
    /\ pc = "count"
    /\ idx < Len(all_words_list)
    /\ idx' = idx + 1
    /\ LET cnt == CountTokenized(all_words_list[idx + 1], hash_seed,
                                 word_counts, cooccurrence_counts)
       IN  /\ word_counts' = cnt[1]
           /\ cooccurrence_counts' = cnt[2]
    /\ doc_terms' = Append(doc_terms, all_words_list[idx + 1])
    /\ UNCHANGED << hash_seed, args, settings, ai_log, api_calls, ai_keywords_cache, pc, rows, all_words_list,
                    results, progress_bar >>
    /\ UNCHANGED outsideAgg

CountLoopEnd ==
    /\ pc = "count"
    /\ idx = Len(all_words_list)
    /\ pc' = "select"
    /\ progress_bar' = Append(progress_bar, Emptied)        \* line 521
    /\ UNCHANGED << hash_seed, args, settings, ai_log, api_calls, ai_keywords_cache, rows, idx, all_words_list,
                    word_counts, cooccurrence_counts, results, doc_terms >>
    /\ UNCHANGED outsideAgg

\* Lines 521-555: vocabulary selection, filtering and return.
Select ==
    /\ pc = "select"
    /\ results' = Append(results,
           SelectResult(word_counts, cooccurrence_counts, min_count, top_n_words,
                        Len(rows)))
    /\ pc' = "idle"
    /\ UNCHANGED << hash_seed, args, settings, ai_log, api_calls, ai_keywords_cache, rows, idx, all_words_list,
                    word_counts, cooccurrence_counts, doc_terms, progress_bar >>
    /\ UNCHANGED outsideAgg

\* The server process is started again: a fresh hash seed (line 1 onwards run
\* in a new interpreter) and a fresh session state (lines 48-49).
Restart ==
    /\ pc = "idle"
    /\ Len(results) \in 1..(MaxRuns - 1)
    /\ hash_seed' \in HashSeeds \ {hash_seed}
    /\ ai_keywords_cache' = EmptyDict
    /\ api_calls' = EmptyDict
    /\ UNCHANGED << args, settings, ai_log, pc, rows, idx, all_words_list, word_counts,
                    cooccurrence_counts, results, doc_terms, progress_bar >>
    /\ UNCHANGED outsideAgg

Next ==
    \/ Generate
    \/ AIDocument
    \/ AILoopEnd
    \/ TokenizeBatch
    \/ CountDocument
    \/ CountLoopEnd
    \/ Select

Spec == Init /\ [][Next]_vars

\* A session in which calculate_cooccurrence is called again with the same
\* arguments, the server possibly started again in between.
GenerateAgain ==
    /\ Len(results) \in 1..(MaxRuns - 1)
    /\ ScriptRun
    /\ Call
    /\ UNCHANGED flowVars

InitSession == Init /\ Len(df) <= MaxSessionDocs

NextSession ==
    \/ Next
    \/ GenerateAgain
    \/ Restart

SpecSession == InitSession /\ [][NextSession]_vars

(***************************************************************************)
(* calculate_cooccurrence on the example documents of the specification,   *)
(* regex strategy (MECAB_AVAILABLE false), min_count=1, top_n_words=10.    *)
(***************************************************************************)
MaxExampleDocs == 3   \* rows of the example frame

\* "デジタル化により市民サービスの向上を図る。"
T_ex1 == << 12487, 12472, 12479, 12523, 21270, 12395, 12424, 12426, 24066, 27665,
            12469, 12540, 12499, 12473, 12398, 21521, 19978, 12434, 22259, 12427, 12290 >>
\* "学校給食における食育の推進。"
T_ex2 == << 23398, 26657, 32102, 39135, 12395, 12362, 12369, 12427, 39135, 32946,
            12398, 25512, 36914, 12290 >>
\* "防災・減災対策の強化。"
T_ex3 == << 38450, 28797, 12539, 28187, 28797, 23550, 31574, 12398, 24375, 21270, 12290 >>

ExampleDocs == << T_ex1, T_ex2, T_ex3 >>

InitExample ==
    /\ hash_seed \in HashSeeds
    /\ use_ai = FALSE
    /\ api_key = FALSE
    /\ sample_size = 0
    /\ df \in SeqUpTo(Range(ExampleDocs), MaxExampleDocs)
    /\ min_count = 1
    /\ top_n_words = 10
    /\ ai_keywords_cache = EmptyDict
    /\ pc = "idle"
    /\ rows = <<>>
    /\ idx = 0
    /\ all_words_list = <<>>
    /\ word_counts = EmptyDict
    /\ cooccurrence_counts = EmptyDict
    /\ results = <<>>
    /\ doc_terms = <<>>
    /\ AIHistoryOff
    /\ progress_bar = <<>>
    /\ net_args = NoNetArgs
    /\ net_done = FALSE
    /\ net_out = NoNetOut
    /\ TokOff
    /\ QueryOff
    /\ ScoreOff
    /\ KeywordsOff
    /\ FlowOff

NextExample ==
    \/ Generate
    \/ TokenizeBatch
    \/ CountDocument
    \/ CountLoopEnd
    \/ Select

SpecExample == InitExample /\ [][NextExample]_vars

(***************************************************************************)
(* calculate_cooccurrence on frames long enough for several batches and    *)
(* several progress reports; the first row holds a text, the others none.  *)
(***************************************************************************)
MaxBatches == 2       \* full batches of the longest frame

FrameLengths ==
    {0, 1, ProgressEvery - 1, ProgressEvery, ProgressEvery + 1, 2 * ProgressEvery + 5}
    \cup { k * BatchSize + d : k \in 1..MaxBatches, d \in {-1, 0, 1} }

InitProgress ==
    /\ hash_seed = 1
    /\ use_ai \in BOOLEAN
    /\ api_key = use_ai
    /\ sample_size = 0
    /\ \E n \in FrameLengths : df = [i \in 1..n |-> IF i = 1 THEN T_a ELSE NaN]
    /\ min_count = 1
    /\ top_n_words = 1
    /\ ai_keywords_cache = EmptyDict
    /\ pc = "idle"
    /\ rows = <<>>
    /\ idx = 0
    /\ all_words_list = <<>>
    /\ word_counts = EmptyDict
    /\ cooccurrence_counts = EmptyDict
    /\ results = <<>>
    /\ doc_terms = <<>>
    /\ AIHistoryOff
    /\ progress_bar = <<>>
    /\ net_args = NoNetArgs
    /\ net_done = FALSE
    /\ net_out = NoNetOut
    /\ TokOff
    /\ QueryOff
    /\ ScoreOff
    /\ KeywordsOff
    /\ FlowOff

SpecProgress == InitProgress /\ [][Next]_vars

(***************************************************************************)
(* calculate_cooccurrence in AI mode on documents longer than the prefix   *)
(* that is hashed: two of them start with the same PrefixLen characters.   *)
(***************************************************************************)
MaxPrefixDocs == 2

LongHead == [i \in 1..PrefixLen |-> 12354]              \* "あ" PrefixLen times
T_long_shokuiku == LongHead \o W_shokuiku
T_long_bousai   == LongHead \o W_bousai
T_long_other    == W_digital \o LongHead

LongTextPool == { T_long_shokuiku, T_long_bousai, T_long_other }

InitPrefix ==
    /\ hash_seed = 1
    /\ use_ai = TRUE
    /\ api_key = TRUE
    /\ sample_size = 0
    /\ OPENAI_AVAILABLE = TRUE
    /\ enable_cache \in BOOLEAN
    /\ ai_log = <<>>
    /\ api_calls = EmptyDict
    /\ progress_bar = <<>>
    /\ df \in SeqUpTo(LongTextPool, MaxPrefixDocs)
    /\ min_count = 1
    /\ top_n_words \in 1..MaxTopN
    /\ ai_keywords_cache = EmptyDict
    /\ pc = "idle"
    /\ rows = <<>>
    /\ idx = 0
    /\ all_words_list = <<>>
    /\ word_counts = EmptyDict
    /\ cooccurrence_counts = EmptyDict
    /\ results = <<>>
    /\ doc_terms = <<>>
    /\ net_args = NoNetArgs
    /\ net_done = FALSE
    /\ net_out = NoNetOut
    /\ TokOff
    /\ QueryOff
    /\ ScoreOff
    /\ KeywordsOff
    /\ FlowOff

NextAI ==
    \/ Generate
    \/ AIDocument
    \/ AILoopEnd
    \/ Select

SpecPrefix == InitPrefix /\ [][NextAI]_vars

(***************************************************************************)
(* create_cooccurrence_network, lines 557-749.  A float is a fraction      *)
(* <<numerator, denominator>> with a positive denominator.  The layout     *)
(* (lines 618-651) only produces coordinates, which are left out.          *)
(***************************************************************************)
MaxFreq == 2          \* word_counts values are drawn from 1..MaxFreq
MaxPairCount == 2     \* cooccurrence_data values are drawn from 1..MaxPairCount
MaxCommunities == 2   \* community ids the detection can hand out


RECURSIVE FracMax(_)
FracMax(q) ==
    IF Len(q) = 1 THEN q[1]
    ELSE LET m == FracMax(Tail(q)) IN IF FracLeq(m, q[1]) THEN q[1] ELSE m

\* Variant: the division is not guarded.
EdgeWeightUnguarded(count, denominator) == << count, denominator >>

\* Lines 579-582.
EdgeWeight(count, denominator) ==
    IF denominator > 0 THEN << count, denominator >> ELSE Zero

\* G.add_node(name, count=c): a new node, or a new attribute of an old one.
AddNode(nodes, name, c) ==
    IF name \in Keys(nodes)
    THEN [i \in 1..Len(nodes) |-> IF nodes[i][1] = name THEN << name, c >> ELSE nodes[i]]
    ELSE Append(nodes, << name, c >>)

NoCount == -1         \* a node that has no count attribute

\* The nodes G.add_edge(u, v) creates when they are missing.
TouchNodes(nodes, u, v) ==
    LET n1 == IF u \in Keys(nodes) THEN nodes ELSE Append(nodes, << u, NoCount >>)
    IN  IF v \in Keys(n1) THEN n1 ELSE Append(n1, << v, NoCount >>)

\* Lines 569-571.
RECURSIVE AddNodes(_, _, _)
AddNodes(nodes, top_words, wc) ==
    IF top_words = <<>> THEN nodes
    ELSE AddNodes(IF top_words[1] \in Keys(wc)
                  THEN AddNode(nodes, top_words[1], Get(wc, top_words[1]))
                  ELSE nodes,
                  Tail(top_words), wc)

\* G.add_edge(u, v, ...): the graph is undirected and holds one edge per pair.
AddEdge(edges, e) ==
    LET Same(x) == {x.u, x.v} = {e.u, e.v}
    IN  IF \E i \in 1..Len(edges) : Same(edges[i])
        THEN [i \in 1..Len(edges) |->
                 IF Same(edges[i])
                 THEN [edges[i] EXCEPT !.weight = e.weight, !.raw_count = e.raw_count]
                 ELSE edges[i]]
        ELSE Append(edges, e)

\* Lines 574-584, from entry i of cooccurrence_data on.
RECURSIVE AddEdges(_, _, _, _)
AddEdges(G, cd, i, wc) ==
    IF i > Len(cd) THEN G
    ELSE LET word1 == cd[i][1][1]
             word2 == cd[i][1][2]
             count == cd[i][2]
         IN  IF word1 \in Keys(wc) /\ word2 \in Keys(wc)
             THEN LET weight == EdgeWeight(count, Get(wc, word1) + Get(wc, word2) - count)
                  IN  AddEdges([ nodes |-> TouchNodes(G.nodes, word1, word2),
                                 edges |-> AddEdge(G.edges,
                                              [u |-> word1, v |-> word2,
                                               weight |-> weight, raw_count |-> count]),
                                 edge_weights |-> Append(G.edge_weights, weight) ],
                               cd, i + 1, wc)
             ELSE AddEdges(G, cd, i + 1, wc)

EmptyGraph == [nodes |-> <<>>, edges |-> <<>>, edge_weights |-> <<>>]

\* Lines 566-584.
BuildGraph(wc, cd, top_words) ==
    AddEdges([EmptyGraph EXCEPT !.nodes = AddNodes(<<>>, top_words, wc)], cd, 1, wc)

\* Lines 599, 602, 606: every node in community 0.
DefaultPartition(G) == [i \in 1..Len(G.nodes) |-> << G.nodes[i][1], 0 >>]

\* Lines 592-607 without the two except clauses: partition stays the {} of
\* line 592 when the import or the detection raises.
PartitionUnhandled(G, detection) ==
    IF detection.kind = "ok"
    THEN IF Len(G.nodes) > 0 /\ Len(G.edges) > 0
         THEN [i \in 1..Len(G.nodes) |-> << G.nodes[i][1], detection.ids[i] >>]
         ELSE DefaultPartition(G)
    ELSE EmptyDict

\* Lines 592-607.  detection.kind is what the import and the call do:
\* "ok", "import_error" or "error"; detection.ids are the ids best_partition
\* gives the nodes, by position.
Partition(G, detection) ==
    IF detection.kind = "ok" /\ Len(G.nodes) > 0 /\ Len(G.edges) > 0
    THEN [i \in 1..Len(G.nodes) |-> << G.nodes[i][1], detection.ids[i] >>]
    ELSE DefaultPartition(G)

\* Variant: an edge counts for its first endpoint only.
DegreeAsSource(G, n) ==
    LET Ends(e) == IF e.u = n THEN 1 ELSE 0
        F[i \in 0..Len(G.edges)] == IF i = 0 THEN 0 ELSE F[i - 1] + Ends(G.edges[i])
    IN  F[Len(G.edges)]

\* G.degree(n).
Degree(G, n) ==
    LET Ends(e) == (IF e.u = n THEN 1 ELSE 0) + (IF e.v = n THEN 1 ELSE 0)
        F[i \in 0..Len(G.edges)] == IF i = 0 THEN 0 ELSE F[i - 1] + Ends(G.edges[i])
    IN  F[Len(G.edges)]

RECURSIVE DegreeSum(_, _)
DegreeSum(G, i) ==
    IF i > Len(G.nodes) THEN 0 ELSE Degree(G, G.nodes[i][1]) + DegreeSum(G, i + 1)

\* nx.density of an undirected graph with more than one node.
Density(G) == << 2 * Len(G.edges), Len(G.nodes) * (Len(G.nodes) - 1) >>

\* Lines 741-747.
Stats(G, partition) ==
    << << "num_nodes", Frac(Len(G.nodes)) >>,
       << "num_edges", Frac(Len(G.edges)) >>,
       << "num_communities", Frac(Cardinality({ partition[i][2] : i \in 1..Len(partition) })) >>,
       << "avg_degree", << DegreeSum(G, 1), Len(G.nodes) >> >>,
       << "density", IF Len(G.nodes) > 1 THEN Density(G) ELSE Zero >> >>

\* Line 616.
ZeroStats ==
    << << "num_nodes", Zero >>, << "num_edges", Zero >>, << "num_communities", Zero >>,
       << "avg_degree", Zero >>, << "density", Zero >> >>

\* Lines 660-678: the edges drawn, as <<inter-community, intra-community>>.
\* threshold2 is edge_threshold * 2.
EdgeTraces(G, partition, threshold2) ==
    LET weights    == IF G.edge_weights = <<>> THEN <<Zero>> ELSE G.edge_weights
        max_weight == FracMax(weights)
        threshold  == << threshold2 * max_weight[1], 2 * max_weight[2] >>
        Drawn(e)   == FracLeq(threshold, e.weight)
        Intra(e)   == Get(partition, e.u) = Get(partition, e.v)
        Trace(e)   == [weight |-> e.weight, count |-> e.raw_count, u |-> e.u, v |-> e.v]
        drawn      == SelectSeq(G.edges, Drawn)
        Inter(e)   == ~Intra(e)
        inter      == SelectSeq(drawn, Inter)
        intra      == SelectSeq(drawn, Intra)
    IN  << [i \in 1..Len(inter) |-> Trace(inter[i])],
           [i \in 1..Len(intra) |-> Trace(intra[i])] >>

\* Lines 705-738: one trace per community that has nodes, in the order the
\* communities first appear in the partition.
NodeTraces(G, partition) ==
    LET ids == Dedup([i \in 1..Len(partition) |-> partition[i][2]])
        Members(c) == LET In(e) == e[2] = c IN SelectSeq(partition, In)
    IN  [k \in 1..Len(ids) |->
            [community |-> ids[k],
             nodes |-> [j \in 1..Len(Members(ids[k])) |-> Members(ids[k])[j][1]]]]

\* The st.warning calls of lines 588, 603 and 607, in the order they are made.
Warnings(G, detection) ==
    (IF G.edge_weights = <<>> THEN << "no_edges" >> ELSE <<>>)
    \o (IF detection.kind = "import_error" THEN << "no_library" >>
        ELSE IF detection.kind = "error" THEN << "detection_error" >>
        ELSE <<>>)

\* The whole function: what it returns, and the warnings it shows.
create_cooccurrence_network(wc, cd, top_words, threshold2, detection) ==
    IF wc = EmptyDict \/ top_words = <<>>
    THEN [ edge_traces |-> << <<>>, <<>> >>, node_traces |-> <<>>, stats |-> EmptyDict,
           G |-> EmptyGraph, partition |-> EmptyDict, warnings |-> <<>> ]
    ELSE LET G == BuildGraph(wc, cd, top_words)
             partition == Partition(G, detection)
         IN  IF Len(G.nodes) = 0
             THEN [ edge_traces |-> << <<>>, <<>> >>, node_traces |-> <<>>,
                    stats |-> ZeroStats, G |-> G, partition |-> partition,
                    warnings |-> Warnings(G, detection) ]
             ELSE [ edge_traces |-> EdgeTraces(G, partition, threshold2),
                    node_traces |-> NodeTraces(G, partition),
                    stats |-> Stats(G, partition),
                    G |-> G, partition |-> partition,
                    warnings |-> Warnings(G, detection) ]

(***************************************************************************)
(* create_cooccurrence_network called on its own, with any arguments.      *)
(***************************************************************************)
NetWords == << W_digital, W_bousai, W_shokuiku >>
NetPairs == << <<W_digital, W_bousai>>, <<W_bousai, W_shokuiku>> >>

\* The dict that maps keys[i] to f[i] wherever f[i] is not 0.
DictOf(keys, f) ==
    LET Present(e) == e[2] # 0
    IN  SelectSeq([i \in 1..Len(keys) |-> << keys[i], f[i] >>], Present)

\* The sub-list of q picked by the flags h.
SubList(q, h) ==
    LET pairs == [i \in 1..Len(q) |-> << q[i], h[i] >>]
        Picked(e) == e[2]
        kept == SelectSeq(pairs, Picked)
    IN  [i \in 1..Len(kept) |-> kept[i][1]]

NetArgs ==
    { [ word_counts       |-> DictOf(NetWords, f),
        cooccurrence_data |-> DictOf(NetPairs, g),
        top_words         |-> SubList(NetWords, h),
        edge_threshold2   |-> t ] :
      f \in [1..3 -> 0..MaxFreq], g \in [1..2 -> 0..MaxPairCount],
      h \in [1..3 -> BOOLEAN], t \in {0, 1, 2} }

\* What the import of community_louvain and best_partition can do.
Detections ==
    { [kind |-> "ok", ids |-> f] : f \in [1..3 -> 0..(MaxCommunities - 1)] }
    \cup { [kind |-> k, ids |-> [i \in 1..3 |-> 0]] : k \in {"import_error", "error"} }

InitNet ==
    /\ hash_seed = 1
    /\ df = <<>>
    /\ min_count = 1
    /\ top_n_words = 1
    /\ use_ai = FALSE
    /\ api_key = FALSE
    /\ sample_size = 0
    /\ ai_keywords_cache = EmptyDict
    /\ pc = "idle"
    /\ rows = <<>>
    /\ idx = 0
    /\ all_words_list = <<>>
    /\ word_counts = EmptyDict
    /\ cooccurrence_counts = EmptyDict
    /\ results = <<>>
    /\ doc_terms = <<>>
    /\ AIHistoryOff
    /\ progress_bar = <<>>
    /\ net_args \in NetArgs
    /\ net_done = FALSE
    /\ net_out = NoNetOut
    /\ TokOff
    /\ QueryOff
    /\ ScoreOff
    /\ KeywordsOff
    /\ FlowOff

BuildNetwork ==
    /\ ~net_done
    /\ \E detection \in Detections :
          net_out' = create_cooccurrence_network(
                         net_args.word_counts, net_args.cooccurrence_data,
                         net_args.top_words, net_args.edge_threshold2, detection)
    /\ net_done' = TRUE
    /\ UNCHANGED << aggVars, net_args, tokVars, qryVars, scoreVars, keywordVars, flowVars >>

NextNet == BuildNetwork

SpecNet == InitNet /\ [][NextNet]_vars

(***************************************************************************)
(* create_cooccurrence_network called with a pair table that may hold a    *)
(* pair in both orders: ('a', 'b') and ('b', 'a') are two keys of the dict *)
(* and one edge of the undirected graph.                                   *)
(***************************************************************************)
NetPairsBoth == << <<W_digital, W_bousai>>, <<W_bousai, W_digital>>, <<W_bousai, W_shokuiku>> >>

NetArgsBoth ==
    { [ word_counts       |-> DictOf(NetWords, f),
        cooccurrence_data |-> DictOf(NetPairsBoth, g),
        top_words         |-> NetWords,
        edge_threshold2   |-> t ] :
      f \in [1..3 -> 1..MaxFreq], g \in [1..3 -> 0..MaxPairCount], t \in {0, 1, 2} }

InitNetBoth ==
    /\ hash_seed = 1
    /\ df = <<>>
    /\ min_count = 1
    /\ top_n_words = 1
    /\ use_ai = FALSE
    /\ api_key = FALSE
    /\ sample_size = 0
    /\ ai_keywords_cache = EmptyDict
    /\ pc = "idle"
    /\ rows = <<>>
    /\ idx = 0
    /\ all_words_list = <<>>
    /\ word_counts = EmptyDict
    /\ cooccurrence_counts = EmptyDict
    /\ results = <<>>
    /\ doc_terms = <<>>
    /\ AIHistoryOff
    /\ progress_bar = <<>>
    /\ net_args \in NetArgsBoth
    /\ net_done = FALSE
    /\ net_out = NoNetOut
    /\ TokOff
    /\ QueryOff
    /\ ScoreOff
    /\ KeywordsOff
    /\ FlowOff

SpecNetBoth == InitNetBoth /\ [][NextNet]_vars

(***************************************************************************)
(* tokenize_text (lines 310-363) and tokenize_text_batch (lines 365-429)   *)
(* called on their own.  A document is a text together with the nodes the  *)
(* analyzer returns for it.                                                *)
(***************************************************************************)
MaxBatch == 2         \* texts handed to tokenize_text_batch

Doc(text, nodes) == [text |-> text, nodes |-> nodes]

D_nan      == Doc(NaN, <<>>)
D_empty    == Doc(T_empty, <<>>)
\* "食育の推進"
D_a        == Doc(T_a, << Node("noun", Star, W_shokuiku), Node("particle", Star, C_no),
                          Node("noun", W_suishin, W_suishin) >>)
\* "防災食育防災"
D_bab      == Doc(W_bousai \o W_shokuiku \o W_bousai,
                  << Node("noun", W_bousai, W_bousai), Node("noun", Star, W_shokuiku),
                     Node("noun", W_bousai, W_bousai) >>)
\* "取り組み", segmented into two nouns
D_torikumi == Doc(W_torikumi, << Node("noun", W_tori, W_tori), Node("noun", W_kumi, W_kumi) >>)
\* "行い", a form of the verb "行う"
D_okonai   == Doc(W_okonai, << Node("verb", W_okonau, W_okonai) >>)
\* "2024年度"
D_nendo    == Doc(W_2024 \o W_nendo, << Node("noun", Star, W_2024), Node("noun", W_nendo, W_nendo) >>)

DocPool == { D_nan, D_empty, D_a, D_bab, D_torikumi, D_okonai, D_nendo }

\* tokenize_text(text, use_mecab, use_compound); raises: the analyzer raises.
tokenize_text(doc, use_mecab, available, use_compound, raises, seed) ==
    IF doc.text = NaN \/ doc.text = <<>> THEN <<>>
    ELSE IF use_mecab /\ available
         THEN IF raises
              THEN SelectSeq(FindAll(doc.text), KeepWord)     \* line 357
              ELSE MecabWords(doc.nodes, use_compound, seed)
         ELSE SelectSeq(FindAll(doc.text), KeepWord)

TokArgs ==
    { [fn |-> "tokenize_text_batch", texts |-> q, use_mecab |-> m,
       MECAB_AVAILABLE |-> a, use_compound |-> c] :
          q \in SeqUpTo(DocPool, MaxBatch), m \in BOOLEAN, a \in BOOLEAN, c \in BOOLEAN }
    \cup
    { [fn |-> "tokenize_text", texts |-> <<d>>, use_mecab |-> m,
       MECAB_AVAILABLE |-> a, use_compound |-> c] :
          d \in DocPool, m \in BOOLEAN, a \in BOOLEAN, c \in BOOLEAN }

InitTok ==
    /\ hash_seed \in HashSeeds
    /\ df = <<>>
    /\ min_count = 1
    /\ top_n_words = 1
    /\ use_ai = FALSE
    /\ api_key = FALSE
    /\ sample_size = 0
    /\ ai_keywords_cache = EmptyDict
    /\ pc = "idle"
    /\ rows = <<>>
    /\ idx = 0
    /\ all_words_list = <<>>
    /\ word_counts = EmptyDict
    /\ cooccurrence_counts = EmptyDict
    /\ results = <<>>
    /\ doc_terms = <<>>
    /\ AIHistoryOff
    /\ progress_bar = <<>>
    /\ net_args = NoNetArgs
    /\ net_done = FALSE
    /\ net_out = NoNetOut
    /\ tk_args \in TokArgs
    /\ tk_pc = "start"
    /\ tk_i = 0
    /\ tk_results = <<>>
    /\ QueryOff
    /\ ScoreOff
    /\ KeywordsOff
    /\ FlowOff

\* A call of tokenize_text: one text, one result.
TokenizeText ==
    /\ tk_pc = "start"
    /\ tk_args.fn = "tokenize_text"
    /\ \E raises \in BOOLEAN :
          tk_results' = << tokenize_text(tk_args.texts[1], tk_args.use_mecab,
                                         tk_args.MECAB_AVAILABLE, tk_args.use_compound,
                                         raises, hash_seed) >>
    /\ tk_pc' = "done"
    /\ UNCHANGED << tk_args, tk_i, outsideTok >>

\* Lines 367-372: results = [], the choice of the strategy, and the creation
\* of the tagger, which may raise.
TokBatchStart ==
    /\ tk_pc = "start"
    /\ tk_args.fn = "tokenize_text_batch"
    /\ IF tk_args.use_mecab /\ tk_args.MECAB_AVAILABLE
       THEN tk_pc' \in {"mecab", "except"}
       ELSE tk_pc' = "regex"
    /\ tk_i' = 0
    /\ tk_results' = <<>>
    /\ UNCHANGED << tk_args, outsideTok >>

\* Lines 374-411: one text under the MeCab strategy; when the analyzer raises
\* the except clause of line 412 takes over, with results as it stands.
TokMecabText ==
    /\ tk_pc = "mecab"
    /\ tk_i < Len(tk_args.texts)
    /\ LET doc == tk_args.texts[tk_i + 1]
       IN  IF doc.text = NaN \/ doc.text = <<>>
           THEN /\ tk_results' = Append(tk_results, <<>>)
                /\ tk_i' = tk_i + 1
                /\ tk_pc' = tk_pc
           ELSE \E raises \in BOOLEAN :
                  IF raises
                  THEN /\ tk_pc' = "except"
                       /\ tk_i' = 0
                       /\ tk_results' = tk_results
                  ELSE /\ tk_results' = Append(tk_results,
                              MecabWords(doc.nodes, tk_args.use_compound, hash_seed))
                       /\ tk_i' = tk_i + 1
                       /\ tk_pc' = tk_pc
    /\ UNCHANGED << tk_args, outsideTok >>

\* Lines 414-415: one text of the fallback loop.
TokExceptText ==
    /\ tk_pc = "except"
    /\ tk_i < Len(tk_args.texts)
    /\ tk_results' = Append(tk_results,
           tokenize_text(tk_args.texts[tk_i + 1], FALSE, tk_args.MECAB_AVAILABLE,
                         TRUE, FALSE, hash_seed))
    /\ tk_i' = tk_i + 1
    /\ UNCHANGED << tk_args, tk_pc, outsideTok >>

\* Lines 418-427: one text under the regex strategy.
TokRegexText ==
    /\ tk_pc = "regex"
    /\ tk_i < Len(tk_args.texts)
    /\ tk_results' = Append(tk_results, TokenizeFallback(tk_args.texts[tk_i + 1].text))
    /\ tk_i' = tk_i + 1
    /\ UNCHANGED << tk_args, tk_pc, outsideTok >>

\* Line 429: the loop that ran is over.
TokReturn ==
    /\ tk_pc \in {"mecab", "except", "regex"}
    /\ tk_i = Len(tk_args.texts)
    /\ tk_pc' = "done"
    /\ UNCHANGED << tk_args, tk_i, tk_results, outsideTok >>

NextTok ==
    \/ TokenizeText
    \/ TokBatchStart
    \/ TokMecabText
    \/ TokExceptText
    \/ TokRegexText
    \/ TokReturn

SpecTok == InitTok /\ [][NextTok]_vars

(***************************************************************************)
(* parse_search_query (lines 751-786) and count_keyword_occurrences        *)
(* (lines 788-846).                                                        *)
(***************************************************************************)
MaxQueryDocs == 2     \* rows of the frame handed to count_keyword_occurrences
MaxQueryParts == 3    \* pieces a typed query is put together from

S_and   == << 32, 65, 78, 68, 32 >>      \* " AND "
S_or    == << 32, 79, 82, 32 >>          \* " OR "
C_quote == 34                            \* '"'
W_kyushoku == << 32102, 39135 >>         \* "給食"

\* s[p:p+len(sub)] == sub, p counted from 1.
MatchAt(s, sub, p) ==
    /\ p + Len(sub) - 1 <= Len(s)
    /\ SubSeq(s, p, p + Len(sub) - 1) = sub

\* sub in s.
Contains(s, sub) == \E p \in 1..(Len(s) + 1) : MatchAt(s, sub, p)

\* s.split(sep), sep not empty.
RECURSIVE Split(_, _)
Split(s, sep) ==
    IF ~Contains(s, sep) THEN << s >>
    ELSE LET p == CHOOSE q \in 1..Len(s) :
                      MatchAt(s, sep, q) /\ \A r \in 1..(q - 1) : ~MatchAt(s, sep, r)
         IN  << SubSeq(s, 1, p - 1) >> \o Split(SubSeq(s, p + Len(sep), Len(s)), sep)

IsSpace(c) == c = 32 \/ c = 12288 \/ c = 9 \/ c = 10

\* s.strip().
RECURSIVE Strip(_)
Strip(s) ==
    IF s = <<>> THEN s
    ELSE IF IsSpace(s[1]) THEN Strip(Tail(s))
    ELSE IF IsSpace(s[Len(s)]) THEN Strip(SubSeq(s, 1, Len(s) - 1))
    ELSE s

\* Lines 762-765 and 783-786: one part of the query as (match_type, keyword).
Keyword(part) ==
    IF part # <<>> /\ part[1] = C_quote /\ part[Len(part)] = C_quote
    THEN [match_type |-> "exact", kw |-> SubSeq(part, 2, Len(part) - 1)]
    ELSE [match_type |-> "partial", kw |-> part]

\* Variant: the OR test comes first.
ParseOrFirst(query) ==
    IF Contains(query, S_or)
    THEN LET parts == Split(query, S_or)
         IN  [search_type |-> "OR",
              keywords |-> [i \in 1..Len(parts) |-> Keyword(Strip(parts[i]))]]
    ELSE IF Contains(query, S_and)
    THEN LET parts == Split(query, S_and)
         IN  [search_type |-> "AND",
              keywords |-> [i \in 1..Len(parts) |-> Keyword(Strip(parts[i]))]]
    ELSE [search_type |-> "SINGLE", keywords |-> << Keyword(query) >>]

\* Lines 751-786.
parse_search_query(query) ==
    IF Contains(query, S_and)
    THEN LET parts == Split(query, S_and)
         IN  [search_type |-> "AND",
              keywords |-> [i \in 1..Len(parts) |-> Keyword(Strip(parts[i]))]]
    ELSE IF Contains(query, S_or)
    THEN LET parts == Split(query, S_or)
         IN  [search_type |-> "OR",
              keywords |-> [i \in 1..Len(parts) |-> Keyword(Strip(parts[i]))]]
    ELSE [search_type |-> "SINGLE", keywords |-> << Keyword(query) >>]

\* \w of Python's re on str patterns, for the characters the model holds:
\* kana, kanji, ASCII letters, digits and the underscore.
WordChar(c) == CharClass(c) # 0 \/ (48 <= c /\ c <= 57) \/ c = 95

\* \b after the first p characters of text.
Boundary(text, p) ==
    (p >= 1 /\ WordChar(text[p])) # (p < Len(text) /\ WordChar(text[p + 1]))

\* The pattern of lines 802/817 (exact) or 807/820 (partial) matches at p.
PatternAt(text, k, p) ==
    /\ MatchAt(text, k.kw, p)
    /\ k.match_type = "exact" =>
          (Boundary(text, p - 1) /\ Boundary(text, p - 1 + Len(k.kw)))

\* Series.str.count(pattern) on one text: the non-overlapping matches, found
\* from left to right from position p on (the keyword is not empty).
RECURSIVE CountFrom(_, _, _)
CountFrom(text, k, p) ==
    IF p + Len(k.kw) - 1 > Len(text) THEN 0
    ELSE IF PatternAt(text, k, p) THEN 1 + CountFrom(text, k, p + Len(k.kw))
    ELSE CountFrom(text, k, p + 1)

\* Line 796: fillna('').
Safe(text) == IF text = NaN THEN <<>> ELSE text

\* temp_count of lines 818/820 (803/807), one entry per row.
TempCount(frame, k) == [i \in 1..Len(frame) |-> CountFrom(Safe(frame[i]), k, 1)]

\* "食育" AND "給食"
Q_and_exact   == << 34, 39135, 32946, 34, 32, 65, 78, 68, 32, 34, 32102, 39135, 34 >>
\* 食育 AND 給食
Q_and_partial == << 39135, 32946, 32, 65, 78, 68, 32, 32102, 39135 >>
\* "食育" OR 給食
Q_or          == << 34, 39135, 32946, 34, 32, 79, 82, 32, 32102, 39135 >>
\* "食育"
Q_exact       == << 34, 39135, 32946, 34 >>
\* 食育
Q_partial     == << 39135, 32946 >>

QueryPool == { Q_and_exact, Q_and_partial, Q_or, Q_exact, Q_partial }

QT_both_apart == << 39135, 32946, 12289, 32102, 39135 >>      \* "食育、給食"
QT_twice      == << 39135, 32946, 12290, 39135, 32946 >>      \* "食育。食育"

\* Both words inside running text, both words set apart by punctuation, one
\* word twice, one word inside running text, the other word alone, no text.
QueryTexts == { T_ex2, QT_both_apart, QT_twice, T_a, W_kyushoku, NaN }

\* The pieces of the queries typed against an empty frame: a word, a double
\* quote, the two operators and a space.
QueryPieces == { << 39135 >>, << C_quote >>, S_and, S_or, << 32 >> }

RECURSIVE Flatten(_)
Flatten(q) == IF q = <<>> THEN <<>> ELSE q[1] \o Flatten(Tail(q))

TypedQueries == { Flatten(q) : q \in SeqUpTo(QueryPieces, MaxQueryParts) }

QueryArgs ==
    { [df |-> d, keyword |-> q] : d \in SeqUpTo(QueryTexts, MaxQueryDocs), q \in QueryPool }
    \cup { [df |-> <<>>, keyword |-> q] : q \in TypedQueries }

InitQuery ==
    /\ hash_seed = 1
    /\ df = <<>>
    /\ min_count = 1
    /\ top_n_words = 1
    /\ use_ai = FALSE
    /\ api_key = FALSE
    /\ sample_size = 0
    /\ ai_keywords_cache = EmptyDict
    /\ pc = "idle"
    /\ rows = <<>>
    /\ idx = 0
    /\ all_words_list = <<>>
    /\ word_counts = EmptyDict
    /\ cooccurrence_counts = EmptyDict
    /\ results = <<>>
    /\ doc_terms = <<>>
    /\ AIHistoryOff
    /\ progress_bar = <<>>
    /\ net_args = NoNetArgs
    /\ net_done = FALSE
    /\ net_out = NoNetOut
    /\ TokOff
    /\ qr_args \in QueryArgs
    /\ qr_pc = "start"
    /\ qr_k = 0
    /\ search_type = "none"
    /\ keywords = <<>>
    /\ keyword_count = <<>>
    /\ has_keyword = <<>>
    /\ ScoreOff
    /\ KeywordsOff
    /\ FlowOff

Parsed == parse_search_query(qr_args.keyword)
Positive(counts) == [i \in 1..Len(counts) |-> counts[i] > 0]

\* Lines 793-808, 812-813, 830-831: the query is parsed; a single keyword is
\* counted at once, an AND or OR query sets the columns up for its loop.
QueryStart ==
    /\ qr_pc = "start"
    /\ LET n == Len(qr_args.df)
       IN  CASE Parsed.search_type = "SINGLE" ->
                  /\ keyword_count' = TempCount(qr_args.df, Parsed.keywords[1])
                  /\ has_keyword' = Positive(TempCount(qr_args.df, Parsed.keywords[1]))
                  /\ qr_pc' = "done"
             [] Parsed.search_type = "AND" ->
                  /\ keyword_count' = [i \in 1..n |-> 0]
                  /\ has_keyword' = [i \in 1..n |-> TRUE]
                  /\ qr_pc' = "and"
             [] Parsed.search_type = "OR" ->
                  /\ keyword_count' = [i \in 1..n |-> 0]
                  /\ has_keyword' = [i \in 1..n |-> FALSE]
                  /\ qr_pc' = "or"
    /\ search_type' = Parsed.search_type
    /\ keywords' = Parsed.keywords
    /\ qr_k' = 0
    /\ UNCHANGED << qr_args, outsideQry >>

\* Lines 815-823: one keyword of an AND query.
QueryAndKeyword ==
    /\ qr_pc = "and"
    /\ qr_k < Len(keywords)
    /\ LET temp_count == TempCount(qr_args.df, keywords[qr_k + 1])
       IN  /\ keyword_count' = [i \in 1..Len(keyword_count) |->
                                   keyword_count[i] + temp_count[i]]
           /\ has_keyword' = [i \in 1..Len(has_keyword) |->
                                 has_keyword[i] /\ temp_count[i] > 0]
    /\ qr_k' = qr_k + 1
    /\ UNCHANGED << qr_args, qr_pc, search_type, keywords, outsideQry >>

\* Variant: the counts of the rows that miss a keyword are kept.
QueryAndEndKeepCount ==
    /\ qr_pc = "and"
    /\ qr_k = Len(keywords)
    /\ keyword_count' = keyword_count
    /\ qr_pc' = "done"
    /\ UNCHANGED << qr_args, qr_k, search_type, keywords, has_keyword, outsideQry >>

\* Line 826 (and 844-846): rows that miss a keyword get the count 0.
QueryAndEnd ==
    /\ qr_pc = "and"
    /\ qr_k = Len(keywords)
    /\ keyword_count' = [i \in 1..Len(keyword_count) |->
                            IF has_keyword[i] THEN keyword_count[i] ELSE 0]
    /\ qr_pc' = "done"
    /\ UNCHANGED << qr_args, qr_k, search_type, keywords, has_keyword, outsideQry >>

\* Lines 833-841: one keyword of an OR query.
QueryOrKeyword ==
    /\ qr_pc = "or"
    /\ qr_k < Len(keywords)
    /\ LET temp_count == TempCount(qr_args.df, keywords[qr_k + 1])
       IN  /\ keyword_count' = [i \in 1..Len(keyword_count) |->
                                   keyword_count[i] + temp_count[i]]
           /\ has_keyword' = [i \in 1..Len(has_keyword) |->
                                 has_keyword[i] \/ temp_count[i] > 0]
    /\ qr_k' = qr_k + 1
    /\ UNCHANGED << qr_args, qr_pc, search_type, keywords, outsideQry >>

\* Lines 844-846 after the OR loop.
QueryOrEnd ==
    /\ qr_pc = "or"
    /\ qr_k = Len(keywords)
    /\ qr_pc' = "done"
    /\ UNCHANGED << qr_args, qr_k, search_type, keywords, keyword_count, has_keyword, outsideQry >>

NextQuery ==
    \/ QueryStart
    \/ QueryAndKeyword
    \/ QueryAndEnd
    \/ QueryOrKeyword
    \/ QueryOrEnd

SpecQuery == InitQuery /\ [][NextQuery]_vars

(***************************************************************************)
(* calculate_word_importance_score (lines 182-225) called on its own:      *)
(* several calls on one term, with any frequency and any total_docs.       *)
(***************************************************************************)
MaxScoreFreq == 4     \* freq is drawn from 0..MaxScoreFreq
MaxTotalDocs == 2     \* total_docs is drawn from 1..MaxTotalDocs
MaxScoreCalls == 2    \* calls on the same term

W_niyori == << 12395, 12424, 12426 >>                          \* "により"
W_gensai == << 28187, 28797, 23550, 31574 >>                   \* "減災対策"
W_ai     == << 65, 73 >>                                       \* "AI"
W_long   == W_bousai \o W_shokuiku \o W_bousai \o W_shokuiku   \* "防災食育防災食育"

\* Terms of every length class (<= 2, 3, 4-5, 6-7, >= 8) and of one or two
\* character types.
ScoreWords ==
    { W_shokuiku, W_ai, W_niyori, W_digital, W_gensai,
      W_digital \o <<21270>>, <<24066, 27665>> \o <<12469, 12540, 12499, 12473>>, W_long }

InitScore ==
    /\ hash_seed = 1
    /\ df = <<>>
    /\ min_count = 1
    /\ top_n_words = 1
    /\ use_ai = FALSE
    /\ api_key = FALSE
    /\ sample_size = 0
    /\ ai_keywords_cache = EmptyDict
    /\ pc = "idle"
    /\ rows = <<>>
    /\ idx = 0
    /\ all_words_list = <<>>
    /\ word_counts = EmptyDict
    /\ cooccurrence_counts = EmptyDict
    /\ results = <<>>
    /\ doc_terms = <<>>
    /\ AIHistoryOff
    /\ progress_bar = <<>>
    /\ net_args = NoNetArgs
    /\ net_done = FALSE
    /\ net_out = NoNetOut
    /\ TokOff
    /\ QueryOff
    /\ sc_word \in ScoreWords
    /\ sc_calls = <<>>
    /\ KeywordsOff
    /\ FlowOff

\* One call of the scorer on the term.
ScoreCall ==
    /\ Len(sc_calls) < MaxScoreCalls
    /\ \E freq \in 0..MaxScoreFreq, total_docs \in 1..MaxTotalDocs :
          sc_calls' = Append(sc_calls,
              [freq |-> freq, total_docs |-> total_docs,
               score |-> calculate_word_importance_score(sc_word, freq, total_docs)])
    /\ UNCHANGED << sc_word, outsideScore >>

NextScore == ScoreCall

SpecScore == InitScore /\ [][NextScore]_vars

(***************************************************************************)
(* The keyword list of the dashboard (lines 916-938): the text input with  *)
(* its 'add' button and one 'delete' button per listed keyword.            *)
(***************************************************************************)
MaxKeywords == 3      \* keywords the list is let grow to

\* What is in the text input when 'add' is clicked: nothing, 食育, "食育",
\* "食育" OR 給食, or a space.
KeywordInputs == { <<>>, Q_partial, Q_exact, Q_or, << 32 >> }

\* Variant: the input is appended without looking at the list.
AddedUnchecked(list, input) ==
    IF input # <<>> THEN Append(list, input) ELSE list

\* Lines 924-925.
Added(list, input) ==
    IF input # <<>> /\ input \notin Range(list) THEN Append(list, input) ELSE list

\* list.remove(kw), line 937: the first entry equal to kw goes.
RemoveFirst(list, kw) ==
    LET i == CHOOSE j \in 1..Len(list) :
                 list[j] = kw /\ \A k \in 1..(j - 1) : list[k] # kw
    IN  SubSeq(list, 1, i - 1) \o SubSeq(list, i + 1, Len(list))

InitKeywords ==
    /\ hash_seed = 1
    /\ df = <<>>
    /\ min_count = 1
    /\ top_n_words = 1
    /\ use_ai = FALSE
    /\ api_key = FALSE
    /\ sample_size = 0
    /\ ai_keywords_cache = EmptyDict
    /\ pc = "idle"
    /\ rows = <<>>
    /\ idx = 0
    /\ all_words_list = <<>>
    /\ word_counts = EmptyDict
    /\ cooccurrence_counts = EmptyDict
    /\ results = <<>>
    /\ doc_terms = <<>>
    /\ AIHistoryOff
    /\ progress_bar = <<>>
    /\ net_args = NoNetArgs
    /\ net_done = FALSE
    /\ net_out = NoNetOut
    /\ TokOff
    /\ QueryOff
    /\ ScoreOff
    /\ KeywordsOff
    /\ FlowOff

\* Lines 923-928: a click on 'add'.
AddKeyword ==
    /\ \E input \in KeywordInputs :
          /\ Len(Added(custom_keywords, input)) <= MaxKeywords
          /\ custom_keywords' = Added(custom_keywords, input)
          /\ kw_click' = [button |-> "add", input |-> input, before |-> custom_keywords]
    /\ UNCHANGED << aggVars, netVars, tokVars, qryVars, scoreVars, flowVars >>

\* Lines 934-938: a click on the 'delete' button of the i-th keyword.
DeleteKeyword ==
    /\ \E i \in 1..Len(custom_keywords) :
          /\ custom_keywords' = RemoveFirst(custom_keywords, custom_keywords[i])
          /\ kw_click' = [button |-> "delete", input |-> custom_keywords[i],
                          before |-> custom_keywords]
    /\ UNCHANGED << aggVars, netVars, tokVars, qryVars, scoreVars, flowVars >>

NextKeywords ==
    \/ AddKeyword
    \/ DeleteKeyword

SpecKeywords == InitKeywords /\ [][NextKeywords]_vars

(***************************************************************************)
(* The 'generate network' button of tab 4 (lines 1503-1625).  tab4 holds   *)
(* where the handler of the click stands, the clicks so far, whether the   *)
(* widgets were changed since the last click, the messages the handler     *)
(* showed, the functions it called and the session's cooccurrence_data     *)
(* before the click.                                                       *)
(***************************************************************************)
MaxClicks == 2        \* clicks on the button
MaxFlowDocs == 1      \* rows of the filtered frame

\* The frames the filters can leave.
FlowFrames == SeqUpTo({ T_ab, T_cab }, MaxFlowDocs)

InitFlow ==
    /\ hash_seed = 1
    /\ use_ai \in BOOLEAN
    /\ api_key \in BOOLEAN
    /\ sample_size = 0
    /\ AIHistoryOff
    /\ progress_bar = <<>>
    /\ df \in FlowFrames
    /\ min_count \in 1..MaxMinCount
    /\ top_n_words = MaxTopN
    /\ ai_keywords_cache = EmptyDict
    /\ pc = "idle"
    /\ rows = <<>>
    /\ idx = 0
    /\ all_words_list = <<>>
    /\ word_counts = EmptyDict
    /\ cooccurrence_counts = EmptyDict
    /\ results = <<>>
    /\ doc_terms = <<>>
    /\ net_args = NoNetArgs
    /\ net_done = FALSE
    /\ net_out = NoNetOut
    /\ TokOff
    /\ QueryOff
    /\ ScoreOff
    /\ KeywordsOff
    /\ FlowOff

\* The filters, the slider of min_count, the AI checkbox or the key field
\* are changed between two clicks.
ChangeWidgets ==
    /\ pc = "idle"
    /\ tab4.pc = "idle"
    /\ tab4.clicks \in 1..(MaxClicks - 1)
    /\ ~tab4.changed
    /\ df' \in FlowFrames
    /\ min_count' \in 1..MaxMinCount
    /\ use_ai' \in BOOLEAN
    /\ api_key' \in BOOLEAN
    /\ tab4' = [tab4 EXCEPT !.changed = TRUE]
    /\ UNCHANGED << hash_seed, top_n_words, sample_size, settings, ai_log, api_calls,
                    progress_bar, ai_keywords_cache, pc, rows, idx, all_words_list,
                    word_counts, cooccurrence_counts, results, doc_terms >>
    /\ UNCHANGED << cooccurrence_data, outsideCall >>

\* Lines 1503-1529: the click, up to the call of calculate_cooccurrence.
ClickGenerate ==
    /\ pc = "idle"
    /\ tab4.pc = "idle"
    /\ tab4.clicks < MaxClicks
    /\ ScriptRun
    /\ LET clicked == [tab4 EXCEPT !.clicks = tab4.clicks + 1, !.changed = FALSE,
                                   !.calls = <<>>, !.messages = <<>>,
                                   !.before = cooccurrence_data]
       IN  IF Len(df) = 0
           THEN /\ tab4' = [clicked EXCEPT !.messages = << "warning: no data" >>]
                /\ UNCHANGED << hash_seed, args, settings, ai_log, api_calls, progress_bar,
                                pc, rows, idx, all_words_list, word_counts,
                                cooccurrence_counts, results, doc_terms, outsideCall >>
           ELSE IF use_ai /\ ~api_key
           THEN /\ tab4' = [clicked EXCEPT !.messages = << "error: no API key" >>]
                /\ UNCHANGED << hash_seed, args, settings, ai_log, api_calls, progress_bar,
                                pc, rows, idx, all_words_list, word_counts,
                                cooccurrence_counts, results, doc_terms, outsideCall >>
           ELSE /\ tab4' = [clicked EXCEPT !.pc = "calculating",
                                           !.calls = << "calculate_cooccurrence" >>]
                /\ Call
    /\ UNCHANGED cooccurrence_data

\* Variant: the result is stored whatever its pair table holds.
SessionAfterAlways(before, r, G) ==
    [word_counts |-> r.word_counts, cooccurrence |-> r.cooccurrence,
     top_words |-> r.top_words, graph |-> G]

\* Lines 1531 and 1620-1625: what the session holds after the handler.
SessionAfter(before, r, G) ==
    IF r.cooccurrence = EmptyDict THEN before
    ELSE [word_counts |-> r.word_counts, cooccurrence |-> r.cooccurrence,
          top_words |-> r.top_words, graph |-> G]

\* Lines 1531-1625: calculate_cooccurrence has returned.
ShowResult ==
    /\ tab4.pc = "calculating"
    /\ pc = "idle"
    /\ LET r == results[Len(results)]
       IN  \E detection \in Detections :
              LET out == create_cooccurrence_network(r.word_counts, r.cooccurrence,
                                                     r.top_words, 1, detection)
              IN  /\ cooccurrence_data' = SessionAfter(cooccurrence_data, r, out.G)
                  /\ tab4' = IF r.cooccurrence = EmptyDict
                             THEN [tab4 EXCEPT !.pc = "idle",
                                               !.messages = << "warning: no cooccurrence" >>]
                             ELSE [tab4 EXCEPT !.pc = "idle",
                                               !.calls = Append(tab4.calls,
                                                            "create_cooccurrence_network")]
    /\ UNCHANGED << aggVars, outsideCall >>

NextFlow ==
    \/ ClickGenerate
    \/ ChangeWidgets
    \/ AIDocument
    \/ AILoopEnd
    \/ TokenizeBatch
    \/ CountDocument
    \/ CountLoopEnd
    \/ Select
    \/ ShowResult

SpecFlow == InitFlow /\ [][NextFlow]_vars

(***************************************************************************)
(* Properties of calculate_cooccurrence.                                   *)
(***************************************************************************)
\* Every term some counted document or table mentions.
Universe ==
    UNION { Range(doc_terms[i]) : i \in 1..Len(doc_terms) } \cup Keys(word_counts)

\* Number of counted documents whose term list contains t.
DocFreq(t) == Cardinality({ i \in 1..Len(doc_terms) : t \in Range(doc_terms[i]) })

\* Number of counted documents whose term list contains both a and b.
PairFreq(a, b) ==
    Cardinality({ i \in 1..Len(doc_terms) : {a, b} \subseteq Range(doc_terms[i]) })

Occurrences(q, t) == Cardinality({ j \in 1..Len(q) : q[j] = t })

Counting == pc \in {"ai", "count", "select"}

\* The call has returned from the selection of lines 528-555.
Returned == pc = "idle" /\ Len(results) > 0
LastResult == results[Len(results)]

AsMap(d) == { d[i] : i \in 1..Len(d) }
NoDuplicates(q) == \A i, j \in 1..Len(q) : q[i] = q[j] => i = j
Min(a, b) == IF a < b THEN a ELSE b

SameResult(r1, r2) ==
    /\ AsMap(r1.word_counts) = AsMap(r2.word_counts)
    /\ AsMap(r1.cooccurrence) = AsMap(r2.cooccurrence)
    /\ r1.top_words = r2.top_words

\* C3: two calls on the same documents with the same min_count, top_n_words
\* and sampling return the same term frequencies, pair frequencies and
\* vocabulary sequence (stated for the tokenizer branch, where no external
\* service takes part).
C3_Idempotent ==
    (~(use_ai /\ api_key) /\ Len(results) >= 2) =>
        SameResult(results[1], results[2])

\* C4: the returned vocabulary has exactly min(top_n_words, number of terms
\* with document frequency >= min_count) terms, none of them twice.
C4_VocabularySize ==
    Returned =>
        /\ Len(LastResult.top_words) =
              Min(top_n_words,
                  Cardinality({ t \in Universe : DocFreq(t) >= min_count }))
        /\ NoDuplicates(LastResult.top_words)

\* More terms are eligible than top_n_words admits, and in another case fewer.
C4_Witness ==
    /\ Returned
    /\ Cardinality({ t \in Universe : DocFreq(t) >= min_count }) > top_n_words
    /\ Len(LastResult.top_words) = top_n_words
    /\ \E t \in Universe : DocFreq(t) < min_count

Score(t) == calculate_word_importance_score(t, DocFreq(t), Len(rows))

\* Position of term t in the insertion order of the Counter.
FirstCounted(t) == CHOOSE i \in 1..Len(word_counts) : word_counts[i][1] = t

\* C5: the vocabulary is in descending score order; each of its terms has
\* document frequency >= min_count; no eligible term left out scores strictly
\* higher than a term kept; terms of equal score stand in the order in which
\* they were first counted.
C5_VocabularyOrder ==
    Returned =>
        LET top == LastResult.top_words
        IN  /\ \A i \in 1..Len(top) : DocFreq(top[i]) >= min_count
            /\ \A i, j \in 1..Len(top) : i < j => Score(top[i]) >= Score(top[j])
            /\ \A t \in Universe \ Range(top) :
                  DocFreq(t) >= min_count =>
                      \A i \in 1..Len(top) : Score(t) <= Score(top[i])
            /\ \A i, j \in 1..Len(top) :
                  (i < j /\ Score(top[i]) = Score(top[j])) =>
                      FirstCounted(top[i]) < FirstCounted(top[j])

\* The vocabulary puts a rarer term before a more frequent one, and the
\* more frequent one was kept ahead of an eligible term of equal score that
\* is the smaller string but was counted later.
C5_Witness ==
    /\ Returned
    /\ LET top == LastResult.top_words
       IN  /\ Len(top) = 2
           /\ DocFreq(top[1]) < DocFreq(top[2])
           /\ \E t \in Universe \ Range(top) :
                 /\ DocFreq(t) >= min_count
                 /\ Score(t) = Score(top[2])
                 /\ StrLess(t, top[2])

\* C6: the returned pair table holds exactly the pairs whose two terms are in
\* the returned vocabulary and whose count is >= min_count, each with its
\* full count.
C6_FilteredPairs ==
    Returned =>
        LET top == Range(LastResult.top_words)
        IN  /\ AsMap(LastResult.cooccurrence) =
                  { << <<a, b>>, PairFreq(a, b) >> :
                      <<a, b>> \in { p \in top \X top :
                                        /\ StrLess(p[1], p[2])
                                        /\ PairFreq(p[1], p[2]) >= 1
                                        /\ PairFreq(p[1], p[2]) >= min_count } }
            /\ NoDuplicates([i \in 1..Len(LastResult.cooccurrence) |->
                                LastResult.cooccurrence[i][1]])

\* A pair is kept, a pair that reaches min_count is dropped for a term outside
\* the vocabulary, and a pair is dropped for a count below min_count.
C6_Witness ==
    /\ Returned
    /\ LastResult.cooccurrence # <<>>
    /\ \E k \in Keys(cooccurrence_counts) :
          /\ k \notin Keys(LastResult.cooccurrence)
          /\ Get(cooccurrence_counts, k) >= min_count
    /\ \E k \in Keys(cooccurrence_counts) : Get(cooccurrence_counts, k) < min_count

\* C7: the keys of the returned term frequencies are exactly the vocabulary
\* terms and each value is the term's document frequency over all counted
\* documents.
C7_FilteredFrequencies ==
    Returned =>
        /\ Keys(LastResult.word_counts) = Range(LastResult.top_words)
        /\ Len(LastResult.word_counts) = Len(LastResult.top_words)
        /\ \A e \in AsMap(LastResult.word_counts) : e[2] = DocFreq(e[1])

\* Two vocabulary terms with different frequencies, and a counted term that
\* the vocabulary leaves out.
C7_Witness ==
    /\ Returned
    /\ \E e1, e2 \in AsMap(LastResult.word_counts) : e1[2] # e2[2]
    /\ Keys(word_counts) \ Keys(LastResult.word_counts) # {}

(***************************************************************************)
(* Properties of create_cooccurrence_network.                              *)
(***************************************************************************)
StatKeys == {"num_nodes", "num_edges", "num_communities", "avg_degree", "density"}

\* C8: whatever the arguments, every node of the returned graph is a term of
\* top_words and so are both endpoints of every edge.
C8_EndpointsInVocabulary ==
    net_done =>
        /\ Keys(net_out.G.nodes) \subseteq Range(net_args.top_words)
        /\ \A i \in 1..Len(net_out.G.edges) :
              {net_out.G.edges[i].u, net_out.G.edges[i].v} \subseteq Range(net_args.top_words)

\* C9: an edge built from the pair (a, b) with count c has the weight
\* c / (freq(a) + freq(b) - c) when that denominator is positive and 0
\* otherwise; the edge is added in both cases and no weight has a denominator
\* that is not positive; with c <= min(freq(a), freq(b)) and positive
\* frequencies the weight is within [0, 1].
C9_EdgeWeights ==
    net_done =>
        LET wc == net_args.word_counts
            cd == net_args.cooccurrence_data
            G  == net_out.G
        IN  /\ \A i \in 1..Len(G.edges) :
                  LET e   == G.edges[i]
                      c   == Get(cd, << e.u, e.v >>)
                      fa  == Get(wc, e.u)
                      fb  == Get(wc, e.v)
                      den == fa + fb - c
                  IN  /\ e.raw_count = c
                      /\ e.weight[2] > 0
                      /\ IF den > 0
                         THEN e.weight[1] * den = c * e.weight[2]
                         ELSE e.weight[1] = 0
                      /\ (fa > 0 /\ fb > 0 /\ c <= Min(fa, fb)) =>
                            (0 <= e.weight[1] /\ e.weight[1] <= e.weight[2])
            /\ (wc # EmptyDict /\ net_args.top_words # <<>>) =>
                  \A k \in Keys(cd) :
                      ({k[1], k[2]} \subseteq Keys(wc)) =>
                          \E i \in 1..Len(G.edges) :
                              G.edges[i].u = k[1] /\ G.edges[i].v = k[2]

\* The graph holds an edge whose denominator is 0 and which got weight 0, and
\* an edge whose weight is strictly between 0 and 1.
C9_Witness ==
    /\ net_done
    /\ \E i, j \in 1..Len(net_out.G.edges) :
          LET e == net_out.G.edges[i]
              f == net_out.G.edges[j]
              wc == net_args.word_counts
          IN  /\ Get(wc, e.u) + Get(wc, e.v) - e.raw_count <= 0
              /\ e.weight = Zero
              /\ 0 < f.weight[1] /\ f.weight[1] < f.weight[2]

\* C10: with an empty word_counts or an empty top_words the call returns no
\* traces and statistics in which the node count, edge count, community
\* count, mean degree and density are all present and 0.
C10_EmptyVocabularyStats ==
    (net_done /\ (net_args.word_counts = EmptyDict \/ net_args.top_words = <<>>)) =>
        /\ net_out.edge_traces = << <<>>, <<>> >>
        /\ net_out.node_traces = <<>>
        /\ Keys(net_out.stats) = StatKeys
        /\ \A k \in StatKeys : Get(net_out.stats, k)[1] = 0

(***************************************************************************)
(* Degenerate inputs of calculate_cooccurrence.                            *)
(***************************************************************************)
\* C11: the call returns and hands back an empty term-frequency table, an
\* empty pair table and an empty vocabulary when the frame is empty, when no
\* counted document yields a term, or when no term reaches min_count.
C11_DegenerateEmpty ==
    (/\ Returned
     /\ \/ Len(df) = 0
        \/ \A i \in 1..Len(doc_terms) : doc_terms[i] = <<>>
        \/ \A t \in Universe : DocFreq(t) < min_count)
    => LastResult = EmptyResult

\* Documents were counted and yielded terms, but no term reaches min_count,
\* and the call returned the three empty structures.
C11_Witness ==
    /\ Returned
    /\ Len(df) > 0
    /\ \E i \in 1..Len(doc_terms) : Len(doc_terms[i]) >= 2
    /\ \A t \in Universe : DocFreq(t) < min_count
    /\ LastResult = EmptyResult

(***************************************************************************)
(* Properties of the tokenizers.                                           *)
(***************************************************************************)
\* C12: every term that tokenize_text or tokenize_text_batch has produced is
\* outside EXCLUDE_WORDS and at least two characters long, under the MeCab
\* strategy (compounds included) and under the regex strategy.
C12_NoStopWords ==
    \A i \in 1..Len(tk_results) : \A j \in 1..Len(tk_results[i]) :
        /\ tk_results[i][j] \notin EXCLUDE_WORDS
        /\ Len(tk_results[i][j]) >= 2

\* C13: a finished tokenize_text_batch call has returned one term list per
\* input text, result i being the tokenization of text i; either every text
\* was tokenized by the analyzer, or (the analyzer not used, or having raised
\* on some text) every text was tokenized by the regex strategy.
C13_OnePerText ==
    (tk_pc = "done" /\ tk_args.fn = "tokenize_text_batch") =>
        /\ Len(tk_results) = Len(tk_args.texts)
        /\ \/ \A i \in 1..Len(tk_args.texts) :
                 i <= Len(tk_results) /\
                 tk_results[i] = tokenize_text(tk_args.texts[i], TRUE, TRUE,
                                               tk_args.use_compound, FALSE, hash_seed)
           \/ \A i \in 1..Len(tk_args.texts) :
                 i <= Len(tk_results) /\
                 tk_results[i] = TokenizeFallback(tk_args.texts[i].text)

W_digitalka    == W_digital \o <<21270>>                              \* "デジタル化"
W_shimin       == <<24066, 27665>>                                    \* "市民"
W_service      == <<12469, 12540, 12499, 12473>>                      \* "サービス"
W_shiminservice == W_shimin \o W_service                              \* "市民サービス"

\* C14 as stated: on the three example documents the vocabulary contains
\* "デジタル化", "市民サービス", "食育" and "防災" and none of the stop-listed terms
\* "推進", "強化", "計画".
C14_ExampleVocabulary ==
    (Returned /\ df = ExampleDocs) =>
        /\ {W_digitalka, W_shiminservice, W_shokuiku, W_bousai}
              \subseteq Range(LastResult.top_words)
        /\ Range(LastResult.top_words) \cap {W_suishin, W_kyouka, W_keikaku} = {}

\* C14 amended: the regex strategy cuts a text where the character class
\* changes and drops one-character spans, so the vocabulary contains
\* "デジタル", "市民", "サービス", "食育" and "防災" (and neither "デジタル化" nor
\* "市民サービス") and none of "推進", "強化", "計画".
C14_ExampleVocabularySplit ==
    (Returned /\ df = ExampleDocs) =>
        /\ {W_digital, W_shimin, W_service, W_shokuiku, W_bousai}
              \subseteq Range(LastResult.top_words)
        /\ Range(LastResult.top_words) \cap {W_digitalka, W_shiminservice} = {}
        /\ Range(LastResult.top_words) \cap {W_suishin, W_kyouka, W_keikaku} = {}

\* The run on the three example documents has returned its vocabulary, and
\* the tokenizer had met the stop-listed "推進" and "強化" in the texts.
C14_Witness ==
    /\ Returned
    /\ df = ExampleDocs
    /\ Len(LastResult.top_words) = 8
    /\ \E i \in 1..Len(df) : W_suishin \in Range(FindAll(df[i]))
    /\ \E i \in 1..Len(df) : W_kyouka \in Range(FindAll(df[i]))

(***************************************************************************)
(* Properties of count_keyword_occurrences.                                *)
(***************************************************************************)
\* C15: after the query "食育" AND "給食" every row whose text contains both
\* words has has_keyword = TRUE, and every row that contains exactly one of
\* them has has_keyword = FALSE and keyword_count = 0.
C15_AndQuery ==
    (qr_pc = "done" /\ qr_args.keyword = Q_and_exact) =>
        \A i \in 1..Len(qr_args.df) :
            LET text == Safe(qr_args.df[i])
                a == Contains(text, W_shokuiku)
                b == Contains(text, W_kyushoku)
            IN  /\ (a /\ b) => has_keyword[i]
                /\ (a # b) => (~has_keyword[i] /\ keyword_count[i] = 0)

(***************************************************************************)
(* Properties of calculate_word_importance_score.                          *)
(***************************************************************************)
\* C16: for a fixed term the score grows strictly with the frequency (from
\* frequency 0 on), and two calls with the same frequency return the same
\* score whatever total_docs is.
C16_ScoreMonotone ==
    \A i, j \in 1..Len(sc_calls) :
        /\ sc_calls[i].freq < sc_calls[j].freq => sc_calls[i].score < sc_calls[j].score
        /\ sc_calls[i].freq = sc_calls[j].freq => sc_calls[i].score = sc_calls[j].score

\* The term was scored at frequency 0 and at a higher frequency, with
\* different total_docs, and the first score is below the second.
C16_Witness ==
    /\ Len(sc_calls) = 2
    /\ Len(sc_word) <= 2
    /\ sc_calls[1].freq = 0
    /\ sc_calls[2].freq > 0
    /\ sc_calls[1].total_docs # sc_calls[2].total_docs
    /\ sc_calls[1].score < sc_calls[2].score

(***************************************************************************)
(* Properties of the AI branch of calculate_cooccurrence.                  *)
(***************************************************************************)
AIMode == use_ai /\ api_key

\* The extraction of the i-th document of the AI loop failed.
Failed(i) == ai_log[i].kind \in {"raise", "unavailable"}

\* A request went to the completion service for the i-th document.
Asked(i) == ai_log[i].kind \in {"raise", "answer"}

\* C17: in the AI branch a document whose extraction failed (library
\* unavailable, or the request raised) got the empty term list, the two
\* tables count exactly the documents whose extraction did not fail, and the
\* loop has gone through every document when the counting is over.
C17_FailedExtraction ==
    (AIMode /\ Counting) =>
        /\ Len(ai_log) = Len(doc_terms)
        /\ \A i \in 1..Len(ai_log) : Failed(i) => doc_terms[i] = <<>>
        /\ \A t \in Universe :
              Get(word_counts, t) =
                  Cardinality({ i \in 1..Len(doc_terms) :
                                   ~Failed(i) /\ t \in Range(doc_terms[i]) })
        /\ \A a, b \in Universe :
              StrLess(a, b) =>
                  Get(cooccurrence_counts, <<a, b>>) =
                      Cardinality({ i \in 1..Len(doc_terms) :
                                       ~Failed(i) /\ {a, b} \subseteq Range(doc_terms[i]) })
        /\ pc = "select" => Len(doc_terms) = Len(rows)

\* The request for one document raised, and a later document of the same
\* call was answered and counted.
C17_Witness ==
    /\ AIMode
    /\ pc = "select"
    /\ \E i, j \in 1..Len(ai_log) :
          /\ i < j
          /\ ai_log[i].kind = "raise"
          /\ ai_log[j].kind = "answer"
          /\ Len(doc_terms[j]) >= 2
          /\ word_counts # EmptyDict

\* C18: a counted document whose text is missing (NaN) or empty ("") got the
\* empty term list, in the tokenizer branch and in the AI branch, and in the
\* AI branch no request was sent for it.
C18_MissingText ==
    Counting =>
        \A i \in 1..Len(doc_terms) :
            rows[i] \in {NaN, T_empty} =>
                /\ doc_terms[i] = <<>>
                /\ AIMode => ~Asked(i)

\* Requests of the running (or last) call for the text hash h.
AskedFor(h) == Cardinality({ i \in 1..Len(ai_log) : Asked(i) /\ ai_log[i].text_hash = h })

\* Every result the adapter handed back is in the cache under its hash.
Stored ==
    \A i \in 1..Len(ai_log) :
        (ai_log[i].kind # "nan" /\ ai_log[i].kind # "hit") =>
            /\ ai_log[i].text_hash \in Keys(ai_keywords_cache)
            /\ Get(ai_keywords_cache, ai_log[i].text_hash) = doc_terms[i]

\* C19 as stated: in a session no text hash is requested from the completion
\* service more than once, over all the calls of the session, and every
\* result of the adapter, an empty one after a failure included, is stored.
C19_OncePerHash ==
    /\ \A h \in Keys(api_calls) : Get(api_calls, h) <= 1
    /\ (AIMode /\ pc = "ai") => Stored

\* C19 amended: with the cache checkbox ticked no text hash is requested more
\* than once in a session; with it unticked the cache is emptied at every
\* run of the script, so no hash is requested more than once within one
\* call; in both cases every result of the adapter is stored.
C19_OncePerHashCached ==
    /\ enable_cache => \A h \in Keys(api_calls) : Get(api_calls, h) <= 1
    /\ \A i \in 1..Len(ai_log) : AskedFor(ai_log[i].text_hash) <= 1
    /\ (AIMode /\ pc = "ai") => Stored

\* A second call in the same session found the hash of its document in the
\* cache, which holds the empty result of a request that raised, and the
\* service has been asked once for that hash.
C19_Witness ==
    /\ enable_cache
    /\ Len(results) = 1
    /\ pc = "ai"
    /\ Len(ai_log) = 1
    /\ ai_log[1].kind = "hit"
    /\ Get(ai_keywords_cache, ai_log[1].text_hash) = <<>>
    /\ Get(api_calls, ai_log[1].text_hash) = 1

(***************************************************************************)
(* The community fallback of create_cooccurrence_network.                  *)
(***************************************************************************)
\* The call went past the validation of line 560.
NetBuilt == net_done /\ net_args.word_counts # EmptyDict /\ net_args.top_words # <<>>

\* C20: when the detection library is missing, when the detection raises or
\* when the graph has no edges, every node of the graph gets community id 0
\* and the call still returns its statistics and its node traces; in every
\* case each node of the graph has exactly one community id.
C20_CommunityFallback ==
    NetBuilt =>
        LET G == net_out.G
            partition == net_out.partition
        IN  /\ Len(partition) = Len(G.nodes)
            /\ \A i \in 1..Len(G.nodes) : partition[i][1] = G.nodes[i][1]
            /\ \A i, j \in 1..Len(partition) : partition[i][1] = partition[j][1] => i = j
            /\ net_out.warnings # <<>> =>
                  /\ \A i \in 1..Len(partition) : partition[i][2] = 0
                  /\ Keys(net_out.stats) = StatKeys
                  /\ Get(net_out.stats, "num_nodes") = Frac(Len(G.nodes))
                  /\ Len(G.nodes) > 0 =>
                        /\ Get(net_out.stats, "num_communities") = Frac(1)
                        /\ Len(net_out.node_traces) = 1
                        /\ net_out.node_traces[1].community = 0
                        /\ Len(net_out.node_traces[1].nodes) = Len(G.nodes)

\* The detection raised on a graph of three nodes and two edges, and all
\* three nodes are in community 0.
C20_Witness ==
    /\ NetBuilt
    /\ net_out.warnings = << "detection_error" >>
    /\ Len(net_out.G.nodes) = 3
    /\ Len(net_out.G.edges) = 2
    /\ \A i \in 1..3 : net_out.partition[i][2] = 0

(***************************************************************************)
(* The edges create_cooccurrence_network draws.                            *)
(***************************************************************************)
\* The largest weight of an edge of G, 0 for a graph without edges.
MaxEdgeWeight(G) ==
    IF G.edges = <<>> THEN Zero
    ELSE FracMax([i \in 1..Len(G.edges) |-> G.edges[i].weight])

\* e.weight >= edge_threshold * m, with threshold2 = 2 * edge_threshold.
AtLeast(e, threshold2, m) == FracLeq(<< threshold2 * m[1], 2 * m[2] >>, e.weight)

EndsOf(traces) == { << traces[i].u, traces[i].v >> : i \in 1..Len(traces) }

C22_Statistics ==
    (NetBuilt /\ Len(net_out.G.nodes) > 0) =>
        LET n   == Len(net_out.G.nodes)
            e   == Len(net_out.G.edges)
            ids == { net_out.partition[i][2] : i \in 1..Len(net_out.partition) }
            avg == Get(net_out.stats, "avg_degree")
            den == Get(net_out.stats, "density")
        IN  /\ Keys(net_out.stats) = StatKeys
            /\ Get(net_out.stats, "num_nodes") = Frac(n)
            /\ Get(net_out.stats, "num_edges") = Frac(e)
            /\ Get(net_out.stats, "num_communities") = Frac(Cardinality(ids))
            /\ avg[2] > 0 /\ avg[1] * n = 2 * e * avg[2]
            /\ den[2] > 0
            /\ IF n < 2 THEN den[1] = 0
               ELSE den[1] * n * (n - 1) = 2 * e * den[2]

\* A graph of three nodes in two communities with two edges: mean degree
\* 4/3 and density 2/3.
C22_Witness ==
    /\ NetBuilt
    /\ Len(net_out.G.nodes) = 3
    /\ Len(net_out.G.edges) = 2
    /\ Get(net_out.stats, "num_communities") = Frac(2)
    /\ Get(net_out.stats, "avg_degree") = << 4, 3 >>
    /\ Get(net_out.stats, "density") = << 4, 6 >>

(***************************************************************************)
(* parse_search_query.                                                     *)
(***************************************************************************)
QueryParsed == search_type # "none"

S_OR_letters == << 79, 82 >>

Quoted(part) == Len(part) >= 1 /\ part[1] = C_quote /\ part[Len(part)] = C_quote

\* The keyword is what its part of the query says: exact and without the
\* first and last character when the part starts and ends with a double
\* quote, partial and whole otherwise.
KeywordOf(k, part) ==
    IF Quoted(part)
    THEN /\ k.match_type = "exact"
         /\ Len(k.kw) = (IF Len(part) >= 2 THEN Len(part) - 2 ELSE 0)
         /\ \A j \in 1..Len(k.kw) : k.kw[j] = part[j + 1]
    ELSE k.match_type = "partial" /\ k.kw = part

\* C23: every query is parsed as exactly one of SINGLE, AND and OR: AND when
\* it contains " AND ", also when it contains " OR " as well, and then the
\* letters OR stay inside a keyword; OR when it contains " OR " and not
\* " AND "; SINGLE otherwise, with one keyword; every keyword is exact with
\* its quotes removed when its part starts and ends with a double quote and
\* partial otherwise.
C23_ParseClassification ==
    QueryParsed =>
        LET q == qr_args.keyword
            hasAnd == Contains(q, S_and)
            hasOr  == Contains(q, S_or)
            sep    == IF hasAnd THEN S_and ELSE S_or
            parts  == IF hasAnd \/ hasOr THEN Split(q, sep) ELSE << q >>
        IN  /\ search_type \in {"SINGLE", "AND", "OR"}
            /\ (search_type = "AND") = hasAnd
            /\ (search_type = "OR") = (hasOr /\ ~hasAnd)
            /\ (search_type = "SINGLE") => Len(keywords) = 1
            /\ (hasAnd /\ hasOr) =>
                  \E i \in 1..Len(keywords) : Contains(keywords[i].kw, S_OR_letters)
            /\ Len(keywords) = Len(parts)
            /\ \A i \in 1..Len(keywords) :
                  KeywordOf(keywords[i],
                            IF search_type = "SINGLE" THEN parts[i] ELSE Strip(parts[i]))

\* The query "食 OR  AND " holds both operators and was parsed as AND; its
\* first keyword is the partial term "食 OR".
C23_Witness ==
    /\ QueryParsed
    /\ qr_args.keyword = << 39135 >> \o S_or \o S_and
    /\ search_type = "AND"
    /\ Len(keywords) = 2
    /\ keywords[1] = [match_type |-> "partial", kw |-> << 39135, 32, 79, 82 >>]
    /\ keywords[2] = [match_type |-> "partial", kw |-> <<>>]

(***************************************************************************)
(* The progress bar of calculate_cooccurrence.                             *)
(***************************************************************************)
\* The values the progress bar was told, in order.
ProgressValues ==
    LET IsValue(e) == e.call = "progress"
        told == SelectSeq(progress_bar, IsValue)
    IN  [i \in 1..Len(told) |-> told[i].value]

\* The call has finished its loops.
LoopsDone == pc = "select" \/ (pc = "idle" /\ Len(results) > 0 /\ Len(df) > 0)

\* C24: every value the progress bar is told during a call lies in [0, 1]
\* and no value is smaller than the one before; with the tokenizer and at
\* least one document the last value is 1; the bar is emptied, and told
\* nothing after that, before the call hands back its results.
C24_Progress ==
    LET v == ProgressValues
    IN  /\ \A i \in 1..Len(v) : v[i][2] > 0 /\ 0 <= v[i][1] /\ v[i][1] <= v[i][2]
        /\ \A i \in 1..(Len(v) - 1) : FracLeq(v[i], v[i + 1])
        /\ (LoopsDone /\ ~(use_ai /\ api_key)) => v[Len(v)][1] = v[Len(v)][2]
        /\ \A i \in 1..Len(progress_bar) :
              (progress_bar[i] = Emptied) = (LoopsDone /\ i = Len(progress_bar))

\* The tokenizer went through a frame of two full batches and one more row:
\* the bar was told 0, 100/201, 200/201 and 1 and was then emptied.
C24_Witness ==
    /\ ~use_ai
    /\ pc = "idle"
    /\ Len(results) = 1
    /\ Len(rows) = 2 * BatchSize + 1
    /\ progress_bar = << Progress(Zero),
                         Progress(<< BatchSize, 2 * BatchSize + 1 >>),
                         Progress(<< 2 * BatchSize, 2 * BatchSize + 1 >>),
                         Progress(Frac(1)), Emptied >>

(***************************************************************************)
(* Pair counts against document frequencies.                               *)
(***************************************************************************)
\* Every pair of the table cc is counted at most as often as each of its two
\* terms is counted in wc.
PairsWithinFrequencies(wc, cc) ==
    \A k \in Keys(cc) :
        /\ {k[1], k[2]} \subseteq Keys(wc)
        /\ Get(cc, k) <= Min(Get(wc, k[1]), Get(wc, k[2]))

\* The graph create_cooccurrence_network builds from a result of
\* calculate_cooccurrence.
GraphOf(r) == BuildGraph(r.word_counts, r.cooccurrence, r.top_words)

\* C25: while calculate_cooccurrence counts, and in the tables it returns,
\* no pair is counted more often than the rarer of its two terms; so every
\* edge built from a returned result has a positive denominator
\* freq(a) + freq(b) - count and its weight is count over that denominator,
\* never the 0 of the guarded branch.
C25_PairWithinFrequencies ==
    /\ PairsWithinFrequencies(word_counts, cooccurrence_counts)
    /\ \A n \in 1..Len(results) :
          LET r == results[n]
              G == GraphOf(r)
          IN  /\ PairsWithinFrequencies(r.word_counts, r.cooccurrence)
              /\ \A i \in 1..Len(G.edges) :
                    LET e   == G.edges[i]
                        den == Get(r.word_counts, e.u) + Get(r.word_counts, e.v) - e.raw_count
                    IN  /\ den > 0
                        /\ e.weight = << e.raw_count, den >>
                        /\ e.weight[1] > 0

\* A returned result holds a pair that was counted twice, as often as one of
\* its terms and less often than the other, and the graph built from it has
\* that edge with weight 2/3.
C25_Witness ==
    /\ Returned
    /\ \E i \in 1..Len(GraphOf(LastResult).edges) :
          LET e == GraphOf(LastResult).edges[i]
          IN  /\ e.raw_count = 2
              /\ Get(LastResult.word_counts, e.u) + Get(LastResult.word_counts, e.v) = 5
              /\ e.weight = << 2, 3 >>

(***************************************************************************)
(* The two counting paths of calculate_cooccurrence.                       *)
(***************************************************************************)
\* The tables the AI branch builds from the term lists, one list after the
\* other.
RECURSIVE TablesOfAI(_, _)
TablesOfAI(lists, seed) ==
    IF lists = <<>> THEN << EmptyDict, EmptyDict >>
    ELSE LET before == TablesOfAI(SubSeq(lists, 1, Len(lists) - 1), seed)
         IN  CountAI(lists[Len(lists)], seed, before[1], before[2])

\* The tables the tokenizer branch builds from the same term lists.
RECURSIVE TablesOfTokenizer(_, _)
TablesOfTokenizer(lists, seed) ==
    IF lists = <<>> THEN << EmptyDict, EmptyDict >>
    ELSE LET before == TablesOfTokenizer(SubSeq(lists, 1, Len(lists) - 1), seed)
         IN  CountTokenized(lists[Len(lists)], seed, before[1], before[2])

\* C26: the two counting paths agree: the tables a call has built from the
\* term lists of its documents with one branch are the tables the other
\* branch builds from the same term lists.
C26_BranchesAgree ==
    Counting =>
        LET other == IF use_ai /\ api_key
                     THEN TablesOfTokenizer(doc_terms, hash_seed)
                     ELSE TablesOfAI(doc_terms, hash_seed)
        IN  /\ AsMap(word_counts) = AsMap(other[1])
            /\ AsMap(cooccurrence_counts) = AsMap(other[2])

\* The tokenizer branch has counted a document of three distinct terms and
\* another document, and holds three pairs.
C26_Witness ==
    /\ ~use_ai
    /\ pc = "count"
    /\ Len(doc_terms) >= 2
    /\ \E i \in 1..Len(doc_terms) : Cardinality(Range(doc_terms[i])) = 3
    /\ Cardinality(Keys(cooccurrence_counts)) = 3

(***************************************************************************)
(* Whose terms a cache hit hands out.                                      *)
(***************************************************************************)
\* C27: in AI mode the terms counted for a document are terms the adapter
\* extracted from the text of that document: those of a cache hit were
\* extracted, earlier in the call, from a document with the same text, also
\* when another document starts with the same 100 characters.
C27_OwnTerms ==
    (AIMode /\ Counting) =>
        \A i \in 1..Len(ai_log) :
            ai_log[i].kind = "hit" =>
                \E j \in 1..(i - 1) :
                    /\ ai_log[j].kind \in {"answer", "raise", "unavailable"}
                    /\ rows[j] = rows[i]
                    /\ doc_terms[j] = doc_terms[i]

(***************************************************************************)
(* The columns count_keyword_occurrences leaves.                           *)
(***************************************************************************)
QueryDone == qr_pc = "done"

\* The counts of the single keywords on row i, summed.
RECURSIVE SumOfCounts(_, _)
SumOfCounts(k, i) ==
    IF k = 0 THEN 0
    ELSE SumOfCounts(k - 1, i) + TempCount(qr_args.df, keywords[k])[i]

\* C28: after the call, for every row and every kind of query with keywords
\* that are not empty, has_keyword holds exactly when keyword_count is
\* positive; for OR the count is the sum of the counts of the keywords and
\* the flag says that one of them is positive; for AND the flag says that
\* all of them are positive and the count is their sum when the flag holds
\* and 0 when it does not.
C28_FlagAndCount ==
    (QueryDone /\ \A k \in 1..Len(keywords) : keywords[k].kw # <<>>) =>
        \A i \in 1..Len(qr_args.df) :
            LET Hit(k) == TempCount(qr_args.df, keywords[k])[i] > 0
                sum    == SumOfCounts(Len(keywords), i)
            IN  /\ has_keyword[i] = (keyword_count[i] > 0)
                /\ search_type = "OR" =>
                      /\ keyword_count[i] = sum
                      /\ has_keyword[i] = (\E k \in 1..Len(keywords) : Hit(k))
                /\ search_type = "AND" =>
                      /\ has_keyword[i] = (\A k \in 1..Len(keywords) : Hit(k))
                      /\ keyword_count[i] = (IF has_keyword[i] THEN sum ELSE 0)
                /\ search_type = "SINGLE" => keyword_count[i] = sum

\* An AND query of two partial keywords was run on a row that holds the
\* first keyword and not the second: no flag and the count 0; and on a row
\* that holds both: the flag and the count 2.
C28_Witness ==
    /\ QueryDone
    /\ qr_args.keyword = Q_and_partial
    /\ qr_args.df = << T_a, T_ex2 >>
    /\ has_keyword = << FALSE, TRUE >>
    /\ keyword_count = << 0, 2 >>

(***************************************************************************)
(* The keyword list of the dashboard.                                      *)
(***************************************************************************)
\* C29: after any clicks on 'add' and 'delete' the list custom_keywords
\* holds no keyword twice and no empty string; a click on 'add' with a
\* keyword that is in the list leaves the list as it was; a click on
\* 'delete' takes exactly that keyword out and leaves the others in their
\* order.
C29_KeywordList ==
    /\ NoDuplicates(custom_keywords)
    /\ \A i \in 1..Len(custom_keywords) : custom_keywords[i] # <<>>
    /\ (kw_click.button = "add" /\ kw_click.input \in Range(kw_click.before)) =>
          custom_keywords = kw_click.before
    /\ kw_click.button = "delete" =>
          /\ kw_click.input \notin Range(custom_keywords)
          /\ Len(custom_keywords) = Len(kw_click.before) - 1
          /\ \E i \in 1..Len(kw_click.before) :
                /\ kw_click.before[i] = kw_click.input
                /\ \A j \in 1..Len(custom_keywords) :
                      custom_keywords[j] = kw_click.before[IF j < i THEN j ELSE j + 1]

\* The second of three keywords was deleted: the first and the third are
\* left, in that order.
C29_Witness ==
    /\ kw_click.button = "delete"
    /\ Len(kw_click.before) = 3
    /\ kw_click.input = kw_click.before[2]
    /\ custom_keywords = << kw_click.before[1], kw_click.before[3] >>

(***************************************************************************)
(* What the 'generate network' button stores.                              *)
(***************************************************************************)
\* The handler of the last click is through and the widgets are as they
\* were at the click.
ClickDone == tab4.pc = "idle" /\ tab4.clicks > 0 /\ ~tab4.changed

NetworkCalled == \E i \in 1..Len(tab4.calls) : tab4.calls[i] = "create_cooccurrence_network"

\* C30: the handler of the button calls create_cooccurrence_network and
\* overwrites the session's cooccurrence_data only after
\* calculate_cooccurrence has returned a pair table that is not empty, for a
\* filtered frame that is not empty and, with AI extraction ticked, a key;
\* on every other path the stored cooccurrence_data stays what it was and a
\* warning or an error is shown.
C30_StoreAfterSuccess ==
    /\ tab4.pc = "calculating" => cooccurrence_data = tab4.before
    /\ ClickDone =>
          IF NetworkCalled
          THEN /\ Len(df) > 0
               /\ use_ai => api_key
               /\ tab4.calls = << "calculate_cooccurrence", "create_cooccurrence_network" >>
               /\ results[Len(results)].cooccurrence # EmptyDict
               /\ cooccurrence_data # None
               /\ cooccurrence_data.cooccurrence = results[Len(results)].cooccurrence
               /\ cooccurrence_data.word_counts = results[Len(results)].word_counts
               /\ cooccurrence_data.top_words = results[Len(results)].top_words
          ELSE /\ cooccurrence_data = tab4.before
               /\ Len(tab4.messages) > 0

\* The first click stored a result; the second click, with min_count raised,
\* found no pair, showed its warning and left the stored result alone.
C30_Witness ==
    /\ ClickDone
    /\ tab4.clicks = 2
    /\ tab4.messages = << "warning: no cooccurrence" >>
    /\ tab4.before # None
    /\ cooccurrence_data = tab4.before

====
